---- MODULE Spec2Model ----
(***************************************************************************)
(* State-machine model of the Portfolio wealth simulation:                 *)
(*   simulation/simulation_engine.py   SimulationEngine (run and stages)   *)
(*   models/portfolio.py, models/esg.py, models/risk.py                    *)
(*   analytics/portfolio_optimization.py, analytics/esg_analytics.py       *)
(*   analytics/risk_analytics.py                                           *)
(*   simulation/behavioral_simulation.py, simulation/alternative_investments.py *)
(*                                                                         *)
(* Number representation (Python floats are modelled by exact fixed-point  *)
(* integers):                                                              *)
(*   weights and class fractions   hundredths      (1.0  is 100)           *)
(*   returns of the panels         tenths          (0.1  is 1)             *)
(*   portfolio return series       thousandths     (return x weight)       *)
(*   ESG scores                    1/300 point     (70.0 is 21000)         *)
(*   money (wealth, holdings)      units                                   *)
(***************************************************************************)
EXTENDS Integers, Sequences, FiniteSets, TLC

VARIABLES
    n_clients,          \* SimulationEngine.n_clients
    n_periods,          \* SimulationEngine.n_periods
    clients,            \* SimulationEngine.clients (list of Client)
    market_data,        \* SimulationEngine.market_data (dict name -> DataFrame)
    portfolio_history,  \* SimulationEngine.portfolio_history
    risk_metrics,       \* SimulationEngine.risk_metrics
    esg_scores,         \* SimulationEngine.esg_scores
    behavioral_impacts, \* SimulationEngine.behavioral_impacts
    asset_esg_scores,   \* local of calculate_esg_scores, alive across its client loop
    pc,                 \* position of run(): the stage being executed
    idx,                \* position of the running stage's "for client in self.clients"
    log,                \* the stage methods run() has called so far, in call order
    opt_log,            \* the optimizer calls made by optimize_portfolios and their results
    solved,             \* what scipy's minimize returns per optimizer mode on this panel
    profile,            \* a stand-alone ESGProfile object (models/esg.py)
    call                \* a stand-alone call of a PortfolioOptimizer method

vars == << n_clients, n_periods, clients, market_data, portfolio_history,
           risk_metrics, esg_scores, behavioral_impacts, asset_esg_scores,
           pc, idx, log, opt_log, solved, profile, call >>

engine_vars == << n_clients, n_periods, clients, market_data, portfolio_history,
                  risk_metrics, esg_scores, behavioral_impacts, asset_esg_scores,
                  pc, idx, log, opt_log, solved >>

-----------------------------------------------------------------------------
(* Bounds of the model *)

\* largest n_clients the engine is constructed with
MaxClients == 2

\* rows of every generated panel (n_periods of the generators, 252 in the code)
PanelRows == 2

\* most biases in a behavioral profile passed to a stand-alone call
MaxBiases == 2

\* longest return series passed to a stand-alone analytics call
MaxSeriesLen == 3

\* longest horizon (n_periods) passed to the alternative-investment simulators
MaxPeriods == 10

-----------------------------------------------------------------------------
(* Generic helpers *)

RECURSIVE SumSeq(_)
SumSeq(s) == IF s = << >> THEN 0 ELSE Head(s) + SumSeq(Tail(s))

\* dict.get(key, default)
Get(d, key, default) == IF key \in DOMAIN d THEN d[key] ELSE default

\* the elements of a sequence
Range(s) == { s[i] : i \in DOMAIN s }

Min(a, b) == IF a <= b THEN a ELSE b
Max(a, b) == IF a >= b THEN a ELSE b

-----------------------------------------------------------------------------
(* Python and numpy float arithmetic where NaN and infinities arise: a float is a *)
(* finite number num / den in lowest terms, NaN, or an infinity of sign num       *)

RECURSIVE gcd(_, _)
gcd(a, b) == IF b = 0 THEN a ELSE gcd(b, a % b)

Abs(x) == IF x < 0 THEN -x ELSE x

Sign(x) == IF x < 0 THEN -1 ELSE IF x > 0 THEN 1 ELSE 0

Float(num, den) ==
    LET g == gcd(Abs(num), Abs(den))
    IN  [ kind |-> "finite", num |-> Sign(den) * (num \div g), den |-> Abs(den) \div g ]

NaN == [ kind |-> "nan", num |-> 0, den |-> 1 ]

Inf(sign) == [ kind |-> "inf", num |-> sign, den |-> 1 ]

\* a + b
float_add(a, b) ==
    IF a.kind = "nan" \/ b.kind = "nan" THEN NaN
    ELSE IF a.kind = "inf" /\ b.kind = "inf" THEN ( IF a.num = b.num THEN a ELSE NaN )
    ELSE IF a.kind = "inf" THEN a
    ELSE IF b.kind = "inf" THEN b
    ELSE Float(a.num * b.den + b.num * a.den, a.den * b.den)

\* a * b
float_mul(a, b) ==
    IF a.kind = "nan" \/ b.kind = "nan" THEN NaN
    ELSE IF a.kind = "inf" \/ b.kind = "inf"
         THEN ( IF a.num = 0 \/ b.num = 0 THEN NaN ELSE Inf(Sign(a.num) * Sign(b.num)) )
    ELSE Float(a.num * b.num, a.den * b.den)

\* a - b
float_sub(a, b) == float_add(a, float_mul(Float(-1, 1), b))

\* a / b of numpy floats, both finite: a division by zero gives an infinity or NaN
float_div(a, b) ==
    IF b.num = 0 THEN ( IF a.num = 0 THEN NaN ELSE Inf(Sign(a.num)) )
    ELSE Float(a.num * b.den, a.den * b.num)

\* the sum of a list of floats
RECURSIVE float_sum(_)
float_sum(terms) ==
    IF terms = << >> THEN Float(0, 1) ELSE float_add(Head(terms), float_sum(Tail(terms)))

\* x < c and x > c for a finite c: False for NaN, by its sign for an infinity
float_below(x, c) ==
    IF x.kind = "nan" THEN FALSE
    ELSE IF x.kind = "inf" THEN x.num < 0
    ELSE x.num * c.den < c.num * x.den

float_above(x, c) ==
    IF x.kind = "nan" THEN FALSE
    ELSE IF x.kind = "inf" THEN x.num > 0
    ELSE x.num * c.den > c.num * x.den

\* a <= b, for finite a and b
float_leq(a, b) == a.num * b.den <= b.num * a.den

\* a < 0, False for NaN
float_negative(a) == a.kind /= "nan" /\ a.num < 0

\* a == b, False when either is NaN
float_eq(a, b) == a.kind /= "nan" /\ b.kind /= "nan" /\ a = b

-----------------------------------------------------------------------------
(* models/esg.py *)

\* ESGProfile(environmental, social, governance): the dataclass constructor stores
\* the fields it is given; overall keeps its default 0.0
ESGProfile(environmental, social, governance) ==
    [ environmental |-> environmental, social |-> social,
      governance |-> governance, overall |-> 0 ]

\* ESGProfile.update(environmental=None, social=None, governance=None);
\* an argument is << >> when it is left out (None) and <<v>> when v is passed
ESGProfile_update(p, environmental, social, governance) ==
    LET e == IF environmental /= << >> THEN environmental[1] ELSE p.environmental
        s == IF social /= << >> THEN social[1] ELSE p.social
        g == IF governance /= << >> THEN governance[1] ELSE p.governance
    IN  [ environmental |-> e, social |-> s, governance |-> g,
          overall |-> (e + s + g) \div 3 ]

-----------------------------------------------------------------------------
(* models/risk.py *)

\* a number that is a quotient the fixed-point units cannot hold: num / den
Ratio(num, den) == [ num |-> num, den |-> den ]

\* RiskProfile(): var, cvar, volatility default to 0.0 (exposures is not modelled)
RiskProfile == [ var |-> 0, cvar |-> Ratio(0, 1), volatility |-> Ratio(0, 1) ]

\* RiskProfile.update(var=..., cvar=..., volatility=...), called with all three
RiskProfile_update(p, var, cvar, volatility) ==
    [ p EXCEPT !.var = var, !.cvar = cvar, !.volatility = volatility ]

-----------------------------------------------------------------------------
(* models/portfolio.py *)

\* Portfolio(holdings=holdings)
Portfolio(holdings) ==
    [ holdings |-> holdings, risk_profile |-> RiskProfile,
      esg_profile |-> ESGProfile(0, 0, 0) ]

\* Portfolio.total_value(prices): prices is a dict asset -> price
RECURSIVE total_value_over(_, _, _)
total_value_over(holdings, prices, assets) ==
    IF assets = {} THEN 0
    ELSE LET a == CHOOSE x \in assets : TRUE
         IN  Get(holdings, a, 0) * prices[a]
             + total_value_over(holdings, prices, assets \ {a})

total_value(holdings, prices) == total_value_over(holdings, prices, DOMAIN prices)

\* Portfolio.allocation(prices): the share of each held asset, in hundredths
allocation(holdings, prices) ==
    LET total == total_value(holdings, prices)
    IN  IF total = 0
        THEN [ asset \in DOMAIN holdings |-> 0 ]
        ELSE [ asset \in DOMAIN holdings |->
                 (holdings[asset] * Get(prices, asset, 0) * 100) \div total ]

-----------------------------------------------------------------------------
(* data/synthetic_market_data.py: the generators draw from numpy's random state; *)
(* the model draws a panel from a small family indexed by a variant v            *)

PanelVariants == {1, 2}

\* pd.DataFrame(values, columns=names) with PanelRows rows
DataFrame(values, names) ==
    [ columns |-> names,
      data |-> [ name \in Range(names) |->
                   LET c == CHOOSE i \in DOMAIN names : names[i] = name
                   IN  [ t \in 1..PanelRows |-> values[c, t] ] ] ]

\* generate_equity_returns(): columns Equity_1.. (two of the code's ten)
generate_equity_returns(v) ==
    LET values == [ c \in 1..2, t \in 1..PanelRows |-> ((c + t + v) % 4) - 1 ]
    IN  DataFrame(values, << "Equity_1", "Equity_2" >>)

\* generate_fixed_income(): columns Bond_1.. (one of the code's five); yield levels
generate_fixed_income(v) ==
    LET values == [ c \in 1..1, t \in 1..PanelRows |-> (c + t * v) % 2 ]
    IN  DataFrame(values, << "Bond_1" >>)

\* generate_alternatives(): columns Alt_1.. (one of the code's three)
generate_alternatives(v) ==
    LET values == [ c \in 1..1, t \in 1..PanelRows |-> ((c * t + v) % 3) - 1 ]
    IN  DataFrame(values, << "Alt_1" >>)

\* generate_macroeconomic()
generate_macroeconomic(v) ==
    LET values == [ c \in 1..3, t \in 1..PanelRows |-> (c + t + v) % 2 ]
    IN  DataFrame(values, << "GDP_Growth", "Inflation", "Interest_Rate" >>)

\* pd.concat([a, b, c], axis=1)
concat(a, b, c) ==
    [ columns |-> a.columns \o b.columns \o c.columns,
      data |-> [ name \in Range(a.columns) \cup Range(b.columns) \cup Range(c.columns) |->
                   IF name \in Range(a.columns) THEN a.data[name]
                   ELSE IF name \in Range(b.columns) THEN b.data[name]
                   ELSE c.data[name] ] ]

\* all_returns of optimize_portfolios, calculate_risk_metrics, simulate_behavioral_effects
all_returns_of(md) == concat(md["equities"], md["bonds"], md["alternatives"])

\* {col: 1 for col in columns}
unit_prices(columns) == [ col \in Range(columns) |-> 1 ]

-----------------------------------------------------------------------------
(* data/synthetic_client_data.py: the rows setup() reads for one client *)

\* generate_risk_tolerance(): np.random.randint(1, 11)
RiskTolerances == 1..10

\* generate_demographics(): wealth is lognormal, hence positive
wealth_of(t) == IF t % 2 = 1 THEN 100 ELSE 200

\* generate_behavioral_patterns() and the strengths setup() draws in uniform(0.3, 0.8),
\* in tenths; a dict in insertion order is a sequence of <<bias, strength>>
biases_of(t) ==
    IF t % 3 = 0 THEN << << "Loss Aversion", 6 >> >>
    ELSE IF t % 3 = 1 THEN << << "Herding", 3 >>, << "Anchoring", 8 >> >>
    ELSE << << "Recency Bias", 5 >>, << "Confirmation", 4 >>, << "Loss Aversion", 3 >> >>

\* Client(client_id=i, wealth=..., risk_tolerance=..., behavioral_profile=...):
\* the other fields take their dataclass defaults
Client(i, t) ==
    [ client_id |-> i,
      wealth |-> wealth_of(t),
      risk_tolerance |-> t,
      behavioral_profile |-> [ biases |-> biases_of(t) ],
      risk_profile |-> RiskProfile,
      esg_profile |-> ESGProfile(0, 0, 0),
      portfolio |-> Portfolio(<< >>) ]

-----------------------------------------------------------------------------
(* analytics/portfolio_optimization.py *)

\* a constraint dict {'type': 'eq' | 'ineq', 'fun': f} with the linear
\* f(x) = sum(coef[i] * x[i]) - rhs: 'eq' asks f(x) = 0, 'ineq' asks f(x) >= 0
Constraint(type, coef, rhs) == [ type |-> type, coef |-> coef, rhs |-> rhs ]

\* {'type': 'eq', 'fun': lambda x: np.sum(x) - 1}
budget_constraint(n_assets) == Constraint("eq", [ i \in 1..n_assets |-> 1 ], 100)

\* bounds that let a weight leave [0, 1]
loose_bounds(n_assets) == [ i \in 1..n_assets |-> << -100, 200 >> ]

\* tuple((0, 1) for _ in range(n_assets))
unit_bounds(n_assets) == [ i \in 1..n_assets |-> << 0, 100 >> ]

satisfies(x, c) ==
    LET f == SumSeq([ i \in DOMAIN x |-> c.coef[i] * x[i] ]) - c.rhs
    IN  IF c.type = "eq" THEN f = 0 ELSE f >= 0

within(x, bounds) == \A i \in DOMAIN x : bounds[i][1] <= x[i] /\ x[i] <= bounds[i][2]

\* scipy.optimize.minimize(objective, x0, method='SLSQP', bounds=, constraints=):
\* the library call either reports failure, or reports success with a point that
\* satisfies the bounds and the constraints it was given. Which point is the
\* library's numerics: any of the points in reach that satisfy them.
minimize(reach, bounds, constraints) ==
    { [ success |-> FALSE, x |-> << >>, message |-> "Iteration limit reached" ] }
    \cup { [ success |-> TRUE, x |-> x, message |-> "Optimization terminated successfully" ] :
             x \in { y \in reach : within(y, bounds)
                                   /\ \A k \in DOMAIN constraints : satisfies(y, constraints[k]) } }

\* the keys the result dicts of the three optimizers share: {'weights': ...,
\* 'success': True} or {'success': False, 'message': ...}; volatility is held as its
\* square
OptimizerResult(res) ==
    IF res.success
    THEN [ success |-> TRUE, weights |-> res.x ]
    ELSE [ success |-> FALSE, message |-> res.message ]

\* len(returns): the rows of a panel
rows_of(returns) == Len(returns.data[returns.columns[1]])

\* the return series of the weights on the panel, in thousandths
portfolio_series(returns, weights) ==
    [ t \in 1..rows_of(returns) |->
        SumSeq([ i \in DOMAIN weights |-> weights[i] * returns.data[returns.columns[i]][t] ]) ]

\* np.sum(mean_returns * weights) with mean_returns = returns.mean()
expected_return(returns, weights) ==
    Float(SumSeq(portfolio_series(returns, weights)), 1000 * rows_of(returns))

\* np.dot(weights.T, np.dot(cov_matrix, weights)) with cov_matrix = returns.cov():
\* the sample variance of the return series of the weights, NaN on a one-row panel
portfolio_variance(returns, weights) ==
    LET n  == rows_of(returns)
        p  == portfolio_series(returns, weights)
        s1 == SumSeq(p)
        s2 == SumSeq([ t \in DOMAIN p |-> p[t] * p[t] ])
    IN  IF n = 1 THEN NaN ELSE Float(n * s2 - s1 * s1, n * (n - 1) * 1000000)

\* a / np.sqrt(v): NaN or an infinity when v is 0, else the quotient, held by its
\* numerator and the square of its denominator
over_sqrt(a, v) ==
    IF a.kind = "nan" \/ v.kind = "nan" \/ v.num < 0 THEN NaN
    ELSE IF v.num = 0 THEN ( IF a.num = 0 THEN NaN ELSE Inf(Sign(a.num)) )
    ELSE [ kind |-> "quotient", num |-> a, den |-> v ]

\* np.dot(cov_matrix, weights)[i]: the sample covariance of the i-th column with the
\* return series of the weights
marginal_covariance(returns, weights, i) ==
    LET n    == rows_of(returns)
        p    == portfolio_series(returns, weights)
        r    == returns.data[returns.columns[i]]
        s_r  == SumSeq(r)
        s_p  == SumSeq(p)
        s_rp == SumSeq([ t \in DOMAIN p |-> r[t] * p[t] ])
    IN  IF n = 1 THEN NaN ELSE Float(n * s_rp - s_r * s_p, n * (n - 1) * 10000)

\* risk_contribution(weights) of risk_parity_optimization:
\* weights * (np.dot(cov_matrix, weights) / portfolio_vol)
risk_contribution(returns, weights) ==
    LET portfolio_vol == portfolio_variance(returns, weights)
    IN  [ i \in DOMAIN weights |->
            over_sqrt(float_mul(Float(weights[i], 100),
                                marginal_covariance(returns, weights, i)),
                      portfolio_vol) ]

\* d.update(extra) of result dicts
with_keys(d, extra) ==
    [ key \in DOMAIN d \cup DOMAIN extra |->
        IF key \in DOMAIN extra THEN extra[key] ELSE d[key] ]

\* PortfolioOptimizer.risk_free_rate, 0.02
risk_free_rate == Float(2, 100)

\* the constraints argument left out (None)
None == [ given |-> FALSE, list |-> << >> ]
\* the constraints argument passed as a list of constraint dicts
Given(list) == [ given |-> TRUE, list |-> list ]

\* PortfolioOptimizer.optimize_sharpe_ratio(returns, constraints=None): the results
\* the call can return
optimize_sharpe_ratio(returns, constraints, reach) ==
    LET n_assets == Len(returns.columns)
        cons  == IF ~constraints.given
                 THEN << budget_constraint(n_assets) >>
                 ELSE constraints.list
    IN  { IF res.success
          THEN LET optimal_return == expected_return(returns, res.x)
                   optimal_vol    == portfolio_variance(returns, res.x)
               IN  with_keys(OptimizerResult(res),
                             [ expected_return |-> optimal_return,
                               volatility |-> optimal_vol,
                               sharpe_ratio |->
                                   over_sqrt(float_sub(optimal_return, risk_free_rate),
                                             optimal_vol) ])
          ELSE OptimizerResult(res) :
          res \in minimize(reach, unit_bounds(n_assets), cons) }

\* the integer square root of x, searched between lo and hi
RECURSIVE isqrt_between(_, _, _)
isqrt_between(x, lo, hi) ==
    IF lo = hi THEN lo
    ELSE LET mid == (lo + hi + 1) \div 2
         IN  IF mid * mid <= x THEN isqrt_between(x, mid, hi)
             ELSE isqrt_between(x, lo, mid - 1)

\* np.sqrt(x) rounded down to an integer
isqrt(x) == isqrt_between(x, 0, 46340)

\* n * (n - 1) times the sample variance of the return series of the weights, in
\* thousandths squared: zero when np.sqrt(...) of risk_contribution is zero
scaled_variance(returns, weights) ==
    LET n  == rows_of(returns)
        p  == portfolio_series(returns, weights)
        s1 == SumSeq(p)
    IN  n * SumSeq([ t \in DOMAIN p |-> p[t] * p[t] ]) - s1 * s1

\* risk_parity_objective(weights) of risk_parity_optimization:
\* np.sum((risk_contrib - target_risk) ** 2) with target_risk = 1.0 / len(weights).
\* The risk contributions are held in units of 1e-4 (rounded down), the value in
\* units of 1e-8; asked only of weights of non-zero variance.
risk_parity_objective(returns, weights) ==
    LET n    == rows_of(returns)
        p    == portfolio_series(returns, weights)
        s_p  == SumSeq(p)
        root == isqrt(100 * n * (n - 1) * scaled_variance(returns, weights))
        risk_contrib ==
            [ i \in DOMAIN weights |->
                LET r == returns.data[returns.columns[i]]
                    m == n * SumSeq([ t \in DOMAIN p |-> r[t] * p[t] ]) - SumSeq(r) * s_p
                IN  (100 * weights[i] * m) \div root ]
        target_risk == 10000 \div Len(weights)
    IN  SumSeq([ i \in DOMAIN weights |->
                   (risk_contrib[i] - target_risk) * (risk_contrib[i] - target_risk) ])

\* the points SLSQP can report for risk_parity_objective out of the points of a
\* grid: those that meet the bounds and the budget constraint and have the least
\* objective value among them
risk_parity_minimisers(returns, grid) ==
    LET n_assets == Len(returns.columns)
        feasible == { y \in grid : /\ within(y, unit_bounds(n_assets))
                                   /\ satisfies(y, budget_constraint(n_assets))
                                   /\ scaled_variance(returns, y) > 0 }
    IN  { x \in feasible :
            \A y \in feasible :
                risk_parity_objective(returns, x) <= risk_parity_objective(returns, y) }

\* PortfolioOptimizer.risk_parity_optimization(returns)
risk_parity_optimization(returns, reach) ==
    LET n_assets == Len(returns.columns)
    IN  { IF res.success
          THEN with_keys(OptimizerResult(res),
                         [ expected_return |-> expected_return(returns, res.x),
                           volatility |-> portfolio_variance(returns, res.x),
                           risk_contributions |-> risk_contribution(returns, res.x) ])
          ELSE OptimizerResult(res) :
          res \in minimize(reach, unit_bounds(n_assets), << budget_constraint(n_assets) >>) }

\* PortfolioOptimizer.minimum_variance_optimization(returns)
minimum_variance_optimization(returns, reach) ==
    LET n_assets == Len(returns.columns)
    IN  { IF res.success
          THEN with_keys(OptimizerResult(res),
                         [ expected_return |-> expected_return(returns, res.x),
                           volatility |-> portfolio_variance(returns, res.x) ])
          ELSE OptimizerResult(res) :
          res \in minimize(reach, unit_bounds(n_assets), << budget_constraint(n_assets) >>) }

\* returns.cov()[i][i]: the sample variance of the i-th column
column_variance(returns, i) ==
    LET n  == rows_of(returns)
        r  == returns.data[returns.columns[i]]
        s1 == SumSeq(r)
        s2 == SumSeq([ t \in DOMAIN r |-> r[t] * r[t] ])
    IN  IF n = 1 THEN NaN ELSE Float(n * s2 - s1 * s1, n * (n - 1) * 100)

\* the assets of a panel: returns.columns.tolist()
assets_of(returns) == { returns.columns[i] : i \in DOMAIN returns.columns }

\* risk_aversion = 3.0 of black_litterman_optimization
risk_aversion == 3

\* 1 / tau for the default tau = 0.05
inverse_tau == 20

\* mu_bl of black_litterman_optimization, for a panel whose covariance matrix is
\* diagonal (its inverses are then taken entry by entry): with
\* pi = risk_aversion * cov * market_weights, M1 = inv(tau * cov),
\* M2 = P' inv(Omega) P and M3 = P' inv(Omega) Q, where a view on an asset of the
\* panel puts its confidence on the diagonal of inv(Omega), mu_bl is
\* inv(M1 + M2) (M1 pi + M3). views and confidence are dicts keyed by asset, in
\* tenths.
posterior_mean(returns, market_caps, views, confidence) ==
    [ i \in DOMAIN returns.columns |->
        LET asset  == returns.columns[i]
            market_weight == Float(market_caps[i], SumSeq(market_caps))
            viewed == asset \in DOMAIN views
            m1     == float_div(Float(inverse_tau, 1), column_variance(returns, i))
            m1_pi  == float_mul(Float(risk_aversion * inverse_tau, 1), market_weight)
            m2     == IF viewed THEN Float(confidence[asset], 10) ELSE Float(0, 1)
            m3     == IF viewed
                      THEN float_mul(Float(confidence[asset], 10), Float(views[asset], 10))
                      ELSE Float(0, 1)
        IN  float_div(float_add(m1_pi, m3), float_add(m1, m2)) ]

\* an exception leaving the call
Raised(exception) == [ raised |-> exception ]

\* PortfolioOptimizer.black_litterman_optimization(returns, market_caps, views,
\* confidence): the outcomes of the call. Omega keeps a zero on its diagonal for a
\* view on an asset that is not in the panel, and tau * cov has one for a constant
\* column: np.linalg.inv raises LinAlgError for either. Else the call returns
\* self.optimize_sharpe_ratio(returns, constraints=None).
black_litterman_optimization(returns, market_caps, views, confidence, reach) ==
    IF \E asset \in DOMAIN views \cap assets_of(returns) : asset \notin DOMAIN confidence
    THEN { Raised("KeyError") }
    ELSE IF \E asset \in DOMAIN views \cap assets_of(returns) : confidence[asset] = 0
    THEN { Raised("ZeroDivisionError") }
    ELSE IF \/ \E i \in DOMAIN returns.columns : column_variance(returns, i) = Float(0, 1)
            \/ \E asset \in DOMAIN views : asset \notin assets_of(returns)
    THEN { Raised("LinAlgError") }
    ELSE optimize_sharpe_ratio(returns, None, reach)

-----------------------------------------------------------------------------
(* analytics/risk_analytics.py *)

\* the values of a series in ascending order
RECURSIVE insert_sorted(_, _)
insert_sorted(x, s) ==
    IF s = << >> THEN << x >>
    ELSE IF x <= Head(s) THEN << x >> \o s
    ELSE << Head(s) >> \o insert_sorted(x, Tail(s))

RECURSIVE sorted(_)
sorted(s) == IF s = << >> THEN << >> ELSE insert_sorted(Head(s), sorted(Tail(s)))

\* RiskAnalytics.historical_var(returns, confidence_level): np.percentile(returns, q)
\* with q = (1 - confidence_level) * 100, numpy's linear interpolation between the
\* two order statistics around position q/100 * (n - 1). confidence is in percent,
\* the result in hundredths of the unit of returns.
historical_var(returns, confidence) ==
    LET q   == 100 - confidence
        s   == sorted(returns)
        n   == Len(s)
        lo  == (q * (n - 1)) \div 100
        rem == (q * (n - 1)) % 100
    IN  IF rem = 0 THEN 100 * s[lo + 1]
        ELSE 100 * s[lo + 1] + rem * (s[lo + 2] - s[lo + 1])

\* the mean of the returns at or above the VaR threshold
conditional_var_upper_tail(returns, confidence) ==
    LET var_threshold == historical_var(returns, confidence)
        tail_returns  == SelectSeq(returns, LAMBDA r : 100 * r >= var_threshold)
    IN  Ratio(SumSeq(tail_returns), Len(tail_returns))

\* RiskAnalytics.conditional_var(returns, confidence_level): the mean of the returns
\* at or below the VaR threshold, in the unit of returns
conditional_var(returns, confidence) ==
    LET var_threshold == historical_var(returns, confidence)
        tail_returns  == SelectSeq(returns, LAMBDA r : 100 * r <= var_threshold)
    IN  Ratio(SumSeq(tail_returns), Len(tail_returns))

\* the stress factor applied on top of the series: returns * (1 + stress_factor)
stress_test_on_top(portfolio_returns, stress_scenarios) ==
    LET base_value == 1000
    IN  [ scenario_name \in DOMAIN stress_scenarios |->
            LET stress_factor    == stress_scenarios[scenario_name]
                stressed_returns == [ i \in DOMAIN portfolio_returns |->
                                        portfolio_returns[i] * (10 + stress_factor) ]
                stressed_value   == base_value
                                    + (base_value * SumSeq(stressed_returns)) \div 1000
                loss             == base_value - stressed_value
            IN  loss ]

\* RiskAnalytics.stress_test(portfolio_returns, stress_scenarios): returns in
\* hundredths, stress factors in tenths, so stressed returns in thousandths; the
\* losses in units of the base value
stress_test(portfolio_returns, stress_scenarios) ==
    LET base_value == 1000
    IN  [ scenario_name \in DOMAIN stress_scenarios |->
            LET stress_factor    == stress_scenarios[scenario_name]
                stressed_returns == [ i \in DOMAIN portfolio_returns |->
                                        portfolio_returns[i] * stress_factor ]
                stressed_value   == base_value
                                    + (base_value * SumSeq(stressed_returns)) \div 1000
                loss             == base_value - stressed_value
            IN  loss ]

\* portfolio_returns.std() * np.sqrt(252), held as its square: 252 times the sample
\* variance (ddof = 1), sum((x - mean)^2) / (n - 1) = (n sum(x^2) - sum(x)^2) / (n (n - 1))
annualized_volatility(returns) ==
    LET n  == Len(returns)
        s1 == SumSeq(returns)
        s2 == SumSeq([ i \in DOMAIN returns |-> returns[i] * returns[i] ])
    IN  Ratio(252 * (n * s2 - s1 * s1), n * (n - 1))

-----------------------------------------------------------------------------
(* analytics/esg_analytics.py *)

\* ESGAnalytics.calculate_asset_esg_score({}): three pillar scores, each the mean of
\* three uniform draws, in an ESGProfile whose overall update() then computes.
\* c is the position of the asset among all assets, w the draw of numpy's global
\* random state (the one the panels came from).
calculate_asset_esg_score(c, w) ==
    LET environmental_score == 300 * ((17 * c + 40 * w) % 101)
        social_score        == 300 * ((29 * c + 13 * w) % 101)
        governance_score    == 300 * ((53 * c + 71 * w) % 101)
    IN  ESGProfile_update(
            ESGProfile(environmental_score, social_score, governance_score),
            << >>, << >>, << >>)

\* ESGAnalytics.calculate_portfolio_esg_score(portfolio_weights, asset_esg_scores)
RECURSIVE weighted_sum(_, _, _, _)
weighted_sum(weights, scores, pillar, assets) ==
    IF assets = {} THEN 0
    ELSE LET a == CHOOSE x \in assets : TRUE
         IN  (IF pillar = "weight" THEN weights[a] ELSE scores[a][pillar] * weights[a])
             + weighted_sum(weights, scores, pillar, assets \ {a})

calculate_portfolio_esg_score(portfolio_weights, scores) ==
    LET scored       == DOMAIN portfolio_weights \cap DOMAIN scores
        total_weight == weighted_sum(portfolio_weights, scores, "weight", scored)
        env          == weighted_sum(portfolio_weights, scores, "environmental", scored)
        soc          == weighted_sum(portfolio_weights, scores, "social", scored)
        gov          == weighted_sum(portfolio_weights, scores, "governance", scored)
        env_score    == IF total_weight > 0 THEN env \div total_weight ELSE env
        soc_score    == IF total_weight > 0 THEN soc \div total_weight ELSE soc
        gov_score    == IF total_weight > 0 THEN gov \div total_weight ELSE gov
    IN  ESGProfile_update(ESGProfile(env_score, soc_score, gov_score), << >>, << >>, << >>)

-----------------------------------------------------------------------------
(* simulation/simulation_engine.py: the per-client bodies of the stages *)

\* the equity fraction rising by 0.08 per point of tolerance
initial_allocation_steep(risk_tolerance) ==
    LET eq    == Min(20 + 8 * risk_tolerance, 90)
        bonds == Max(70 - 5 * risk_tolerance, 5)
        alts  == 100 - eq - bonds
    IN  [ equities |-> eq, bonds |-> bonds, alternatives |-> alts ]

\* SimulationEngine.initial_allocation(risk_tolerance), fractions in hundredths
initial_allocation(risk_tolerance) ==
    LET eq    == Min(20 + 6 * risk_tolerance, 90)
        bonds == Max(70 - 5 * risk_tolerance, 5)
        alts  == 100 - eq - bonds
    IN  [ equities |-> eq, bonds |-> bonds, alternatives |-> alts ]

\* the body of the loop of assign_initial_portfolios for one client
assign_initial_portfolio(client, md) ==
    LET eq_names   == md["equities"].columns
        bond_names == md["bonds"].columns
        alt_names  == md["alternatives"].columns
        alloc      == initial_allocation(client.risk_tolerance)
        wealth     == client.wealth
        eq_amt     == (alloc.equities * wealth) \div (100 * Len(eq_names))
        bond_amt   == (alloc.bonds * wealth) \div (100 * Len(bond_names))
        alt_amt    == (alloc.alternatives * wealth) \div (100 * Len(alt_names))
        holdings   == [ name \in Range(eq_names) \cup Range(bond_names) \cup Range(alt_names) |->
                          IF name \in Range(alt_names) THEN alt_amt
                          ELSE IF name \in Range(bond_names) THEN bond_amt
                          ELSE eq_amt ]
    IN  [ client EXCEPT !.portfolio = Portfolio(holdings) ]

\* the bands with the upper threshold exclusive
select_optimizer_exclusive(risk_tolerance) ==
    IF risk_tolerance > 7 THEN "optimize_sharpe_ratio"
    ELSE IF risk_tolerance >= 4 THEN "risk_parity_optimization"
    ELSE "minimum_variance_optimization"

\* the optimizer optimize_portfolios calls for a risk tolerance
select_optimizer(risk_tolerance) ==
    IF risk_tolerance >= 7 THEN "optimize_sharpe_ratio"
    ELSE IF risk_tolerance >= 4 THEN "risk_parity_optimization"
    ELSE "minimum_variance_optimization"

\* the draw of numpy's global random state the generated panel came from
variant_of(all_returns) ==
    CHOOSE v \in PanelVariants :
        all_returns.data["Equity_1"] = generate_equity_returns(v).data["Equity_1"]

\* the points in reach of the solver for an objective on a panel: the iterates
\* SLSQP can stop at, of which minimize() reports one that meets bounds and constraints
solver_reach(mode, all_returns) ==
    LET v == variant_of(all_returns)
    IN  { << 50, 50, 50, 50 >>, << 125, 0, 0, -25 >> }
        \cup ( IF mode = "optimize_sharpe_ratio"
               THEN ( IF v = 1 THEN { << 100, 0, 0, 0 >> } ELSE { << 70, 0, 0, 30 >> } )
               ELSE IF mode = "risk_parity_optimization"
               THEN ( IF v = 1 THEN { << 20, 20, 40, 20 >> } ELSE { << 10, 20, 30, 40 >> } )
               ELSE ( IF v = 1 THEN { << 0, 0, 50, 50 >> } ELSE { << 5, 5, 80, 10 >> } ) )

\* the results the selected optimizer can return
optimizer_results(mode, all_returns) ==
    IF mode = "optimize_sharpe_ratio"
    THEN optimize_sharpe_ratio(all_returns, None, solver_reach(mode, all_returns))
    ELSE IF mode = "risk_parity_optimization"
    THEN risk_parity_optimization(all_returns, solver_reach(mode, all_returns))
    ELSE minimum_variance_optimization(all_returns, solver_reach(mode, all_returns))

\* the loop body without its "if result['success']": result['weights'] is read
\* whatever the result, a KeyError on a failure result
apply_optimizer_result_unchecked(client, result, all_returns) ==
    IF "weights" \in DOMAIN result
    THEN LET total == total_value(client.portfolio.holdings, unit_prices(all_returns.columns))
             new_holdings ==
                 [ asset \in Range(all_returns.columns) |->
                     LET i == CHOOSE j \in DOMAIN all_returns.columns :
                                  all_returns.columns[j] = asset
                     IN  (result.weights[i] * total) \div 100 ]
         IN  [ client |-> [ client EXCEPT !.portfolio.holdings = new_holdings ],
               raised |-> FALSE ]
    ELSE [ client |-> client, raised |-> TRUE ]

\* the loop body falling back to equal weights on a failure result
apply_optimizer_result_fallback(client, result, all_returns) ==
    LET total == total_value(client.portfolio.holdings, unit_prices(all_returns.columns))
        new_holdings ==
            [ asset \in Range(all_returns.columns) |->
                LET i == CHOOSE j \in DOMAIN all_returns.columns :
                             all_returns.columns[j] = asset
                IN  IF result.success THEN (result.weights[i] * total) \div 100
                    ELSE total \div Len(all_returns.columns) ]
    IN  [ client |-> [ client EXCEPT !.portfolio.holdings = new_holdings ],
          raised |-> FALSE ]

\* the loop body writing the weights as holdings, not scaled to the portfolio value
apply_optimizer_result_unscaled(client, result, all_returns) ==
    IF result.success
    THEN LET new_holdings ==
                 [ asset \in Range(all_returns.columns) |->
                     LET i == CHOOSE j \in DOMAIN all_returns.columns :
                                  all_returns.columns[j] = asset
                     IN  result.weights[i] ]
         IN  [ client |-> [ client EXCEPT !.portfolio.holdings = new_holdings ],
               raised |-> FALSE ]
    ELSE [ client |-> client, raised |-> FALSE ]

\* optimize_portfolios, lines 112-121: what the loop body does with the result.
\* raised: a KeyError of reading a key the result dict does not have.
apply_optimizer_result(client, result, all_returns) ==
    IF result.success
    THEN LET optimized_weights == result.weights
             total == total_value(client.portfolio.holdings, unit_prices(all_returns.columns))
             new_holdings ==
                 [ asset \in Range(all_returns.columns) |->
                     LET i == CHOOSE j \in DOMAIN all_returns.columns :
                                  all_returns.columns[j] = asset
                     IN  (optimized_weights[i] * total) \div 100 ]
         IN  [ client |-> [ client EXCEPT !.portfolio.holdings = new_holdings ],
               raised |-> "weights" \notin DOMAIN result ]
    ELSE [ client |-> client, raised |-> FALSE ]

\* portfolio_returns of calculate_risk_metrics and simulate_behavioral_effects:
\* sum over the held assets of all_returns[asset] * amount / total value, in thousandths
RECURSIVE weighted_return(_, _, _, _, _)
weighted_return(holdings, all_returns, total, t, assets) ==
    IF assets = {} THEN 0
    ELSE LET a == CHOOSE x \in assets : TRUE
         IN  (all_returns.data[a][t] * holdings[a] * 100) \div total
             + weighted_return(holdings, all_returns, total, t, assets \ {a})

portfolio_returns_of(client, all_returns) ==
    LET holdings == client.portfolio.holdings
        total    == total_value(holdings, unit_prices(all_returns.columns))
    IN  [ t \in 1..PanelRows |->
            weighted_return(holdings, all_returns, total, t,
                            DOMAIN holdings \cap Range(all_returns.columns)) ]

\* the record keyed by the position of the loop's first client instead of the client
risk_record_unkeyed(client, all_returns) ==
    LET portfolio_returns == portfolio_returns_of(client, all_returns)
    IN  [ client_id |-> 0,
          var_95 |-> historical_var(portfolio_returns, 95),
          cvar_95 |-> conditional_var(portfolio_returns, 95),
          volatility |-> annualized_volatility(portfolio_returns) ]

\* the body of the loop of calculate_risk_metrics: the record it appends
risk_record(client, all_returns) ==
    LET portfolio_returns == portfolio_returns_of(client, all_returns)
    IN  [ client_id |-> client.client_id,
          var_95 |-> historical_var(portfolio_returns, 95),
          cvar_95 |-> conditional_var(portfolio_returns, 95),
          volatility |-> annualized_volatility(portfolio_returns) ]

\* ... and the client it leaves: client.portfolio.update_risk_profile(...)
risk_client(client, all_returns) ==
    LET r == risk_record(client, all_returns)
    IN  [ client EXCEPT !.portfolio.risk_profile =
            RiskProfile_update(@, r.var_95, r.cvar_95, r.volatility) ]

\* all_assets of calculate_esg_scores
all_assets_of(md) ==
    md["equities"].columns \o md["bonds"].columns \o md["alternatives"].columns

\* portfolio_esg of the loop of calculate_esg_scores
portfolio_esg_of(client, md, scores) ==
    calculate_portfolio_esg_score(
        allocation(client.portfolio.holdings, unit_prices(all_assets_of(md))), scores)

\* the record the loop of calculate_esg_scores appends
esg_record(client, md, scores) ==
    LET portfolio_esg == portfolio_esg_of(client, md, scores)
    IN  [ client_id |-> client.client_id,
          esg_score |-> portfolio_esg.overall,
          environmental |-> portfolio_esg.environmental,
          social |-> portfolio_esg.social,
          governance |-> portfolio_esg.governance ]

\* ... and the client it leaves: client.portfolio.update_esg_profile(...)
esg_client(client, md, scores) ==
    LET portfolio_esg == portfolio_esg_of(client, md, scores)
    IN  [ client EXCEPT !.portfolio.esg_profile =
            ESGProfile_update(@, << portfolio_esg.environmental >>,
                              << portfolio_esg.social >>, << portfolio_esg.governance >>) ]

\* the biases BehavioralSimulator.bias_effects knows
bias_effects == { "Loss Aversion", "Recency Bias", "Herding", "Anchoring", "Confirmation" }

\* the record the loop of simulate_behavioral_effects appends: one trading decision
\* per profile bias of the catalog, in profile order
behavioral_record(client) ==
    LET applied == SelectSeq(client.behavioral_profile.biases,
                             LAMBDA b : b[1] \in bias_effects)
    IN  [ client_id |-> client.client_id,
          trading_decisions |->
              [ i \in DOMAIN applied |->
                  [ bias |-> applied[i][1], strength |-> applied[i][2],
                    confidence |-> applied[i][2] ] ] ]

\* asset_prices of simulate: (1 + returns).cumprod(); the price of period t is held
\* in units of 10^-t
RECURSIVE cumprod(_, _)
cumprod(returns, t) == IF t = 0 THEN 1 ELSE cumprod(returns, t - 1) * (10 + returns[t])

asset_prices_of(md, t) ==
    LET all_returns == all_returns_of(md)
    IN  [ asset \in Range(all_returns.columns) |-> cumprod(all_returns.data[asset], t) ]

\* the Series the loop of simulate appends for a client: pd.Series(values, name=...)
value_path(client, md, periods) ==
    [ name |-> client.client_id,
      values |-> [ t \in 1..periods |->
                     total_value(client.portfolio.holdings, asset_prices_of(md, t)) ] ]

-----------------------------------------------------------------------------
(* simulation/behavioral_simulation.py: a series is a sequence of floats, a bias *)
(* strength is in tenths                                                         *)

\* series.rolling(window=window).mean(): NaN until the window is full and wherever
\* the window holds a NaN
RECURSIVE window_sum(_, _, _)
window_sum(series, t, n) ==
    IF n = 0 THEN Float(0, 1) ELSE float_add(series[t], window_sum(series, t - 1, n - 1))

rolling_mean(series, window) ==
    [ t \in DOMAIN series |->
        IF t < window THEN NaN
        ELSE IF \E u \in (t - window + 1)..t : series[u].kind = "nan" THEN NaN
        ELSE float_div(window_sum(series, t, window), Float(window, 1)) ]

\* BehavioralSimulator._loss_aversion_effect(returns, bias_strength)
loss_aversion_effect(returns, bias_strength) ==
    [ t \in DOMAIN returns |->
        IF float_negative(returns[t])
        THEN float_mul(returns[t], float_add(Float(1, 1), Float(bias_strength, 10)))
        ELSE returns[t] ]

\* BehavioralSimulator._recency_bias_effect(returns, bias_strength, lookback_period=20)
recency_bias_effect(returns, bias_strength) ==
    LET recent_performance == rolling_mean(returns, 20)
    IN  [ t \in DOMAIN returns |->
            float_add(returns[t], float_mul(recent_performance[t], Float(bias_strength, 10))) ]

\* BehavioralSimulator._herding_effect(returns, bias_strength, market_returns)
herding_effect(returns, bias_strength, market_returns) ==
    LET market_sentiment == rolling_mean(market_returns, 10)
    IN  [ t \in DOMAIN returns |->
            float_add(returns[t], float_mul(market_sentiment[t], Float(bias_strength, 10))) ]

\* BehavioralSimulator._anchoring_effect(returns, bias_strength, anchor_price, current_price)
anchoring_effect(returns, bias_strength, anchor_price, current_price) ==
    LET price_ratio       == float_div(current_price, anchor_price)
        anchor_adjustment == float_mul(float_sub(price_ratio, Float(1, 1)),
                                       Float(bias_strength, 10))
    IN  [ t \in DOMAIN returns |-> float_add(returns[t], anchor_adjustment) ]

\* BehavioralSimulator._confirmation_bias_effect(returns, bias_strength, beliefs)
confirmation_bias_effect(returns, bias_strength, beliefs) ==
    [ t \in DOMAIN returns |->
        float_add(returns[t],
                  float_mul(float_mul(returns[t], beliefs[t]), Float(bias_strength, 10))) ]

\* the loop of simulate_behavioral_trading over the first n biases of the profile:
\* adjusted_returns after them. anchor_price and current_price are
\* asset_prices.iloc[0].mean() and asset_prices.iloc[-1].mean().
RECURSIVE adjusted_after(_, _, _, _, _, _)
adjusted_after(biases, n, portfolio_returns, market_returns, anchor_price, current_price) ==
    IF n = 0 THEN portfolio_returns
    ELSE LET adjusted_returns == adjusted_after(biases, n - 1, portfolio_returns,
                                                market_returns, anchor_price, current_price)
             bias     == biases[n][1]
             strength == biases[n][2]
         IN  IF bias = "Loss Aversion" THEN loss_aversion_effect(adjusted_returns, strength)
             ELSE IF bias = "Recency Bias" THEN recency_bias_effect(adjusted_returns, strength)
             ELSE IF bias = "Herding"
                  THEN herding_effect(adjusted_returns, strength, market_returns)
             ELSE IF bias = "Anchoring"
                  THEN anchoring_effect(adjusted_returns, strength, anchor_price, current_price)
             ELSE IF bias = "Confirmation"
                  THEN confirmation_bias_effect(
                           adjusted_returns, strength,
                           [ t \in DOMAIN adjusted_returns |-> Float(1, 1) ])
             ELSE adjusted_returns

\* returns.tail(5).mean(): the mean of the last five values (of all of them when
\* there are fewer), NaN values left out; NaN when none is left
tail_mean(returns) ==
    LET last  == [ k \in 1..Min(5, Len(returns)) |->
                     returns[Len(returns) - Min(5, Len(returns)) + k] ]
        valid == SelectSeq(last, LAMBDA x : x.kind /= "nan")
        total == float_sum(valid)
    IN  IF valid = << >> THEN NaN
        ELSE IF total.kind /= "finite" THEN total
        ELSE float_div(total, Float(Len(valid), 1))

\* _generate_trading_decision with the Loss Aversion sale made from strength 0.5 on
generate_trading_decision_from_half(bias, strength, returns) ==
    LET recent_return == tail_mean(returns)
        action ==
            IF bias = "Loss Aversion"
            THEN ( IF float_below(recent_return, Float(-2, 100))
                   THEN ( IF strength >= 5 THEN "sell" ELSE "hold" )
                   ELSE ( IF float_above(recent_return, Float(2, 100)) THEN "buy" ELSE "hold" ) )
            ELSE IF bias = "Recency Bias"
            THEN ( IF float_above(recent_return, Float(1, 100)) THEN "buy"
                   ELSE IF float_below(recent_return, Float(-1, 100)) THEN "sell"
                   ELSE "hold" )
            ELSE IF bias = "Herding"
            THEN ( IF float_above(recent_return, Float(0, 1)) THEN "buy" ELSE "sell" )
            ELSE "hold"
    IN  [ bias |-> bias, strength |-> strength, recent_performance |-> recent_return,
          action |-> action, confidence |-> strength ]

\* BehavioralSimulator._generate_trading_decision(bias, strength, returns)
generate_trading_decision(bias, strength, returns) ==
    LET recent_return == tail_mean(returns)
        action ==
            IF bias = "Loss Aversion"
            THEN ( IF float_below(recent_return, Float(-2, 100))
                   THEN ( IF strength > 5 THEN "sell" ELSE "hold" )
                   ELSE ( IF float_above(recent_return, Float(2, 100)) THEN "buy" ELSE "hold" ) )
            ELSE IF bias = "Recency Bias"
            THEN ( IF float_above(recent_return, Float(1, 100)) THEN "buy"
                   ELSE IF float_below(recent_return, Float(-1, 100)) THEN "sell"
                   ELSE "hold" )
            ELSE IF bias = "Herding"
            THEN ( IF float_above(recent_return, Float(0, 1)) THEN "buy" ELSE "sell" )
            ELSE "hold"
    IN  [ bias |-> bias, strength |-> strength, recent_performance |-> recent_return,
          action |-> action, confidence |-> strength ]

\* trading_decisions after the first n biases of the profile: a bias of the catalog
\* appends the decision made from the returns as adjusted so far, that bias included
RECURSIVE decisions_after(_, _, _, _, _, _)
decisions_after(biases, n, portfolio_returns, market_returns, anchor_price, current_price) ==
    IF n = 0 THEN << >>
    ELSE decisions_after(biases, n - 1, portfolio_returns, market_returns,
                         anchor_price, current_price)
         \o ( IF biases[n][1] \in bias_effects
              THEN << generate_trading_decision(
                          biases[n][1], biases[n][2],
                          adjusted_after(biases, n, portfolio_returns, market_returns,
                                         anchor_price, current_price)) >>
              ELSE << >> )

\* BehavioralSimulator.simulate_behavioral_trading(client_behavior, portfolio_returns,
\* market_returns, asset_prices): the dict the call returns
simulate_behavioral_trading(biases, portfolio_returns, market_returns, anchor_price, current_price) ==
    LET adjusted_returns == adjusted_after(biases, Len(biases), portfolio_returns,
                                           market_returns, anchor_price, current_price)
    IN  [ adjusted_returns |-> adjusted_returns,
          trading_decisions |->
              decisions_after(biases, Len(biases), portfolio_returns, market_returns,
                              anchor_price, current_price),
          behavioral_impact |->
              [ t \in DOMAIN portfolio_returns |->
                  float_sub(adjusted_returns[t], portfolio_returns[t]) ] ]

-----------------------------------------------------------------------------
(* simulation/simulation_engine.py: SimulationEngine.__init__ and run() *)

\* run() with calculate_esg_scores called before calculate_risk_metrics
run_stages_swapped ==
    << "setup", "generate_market_data", "assign_initial_portfolios",
       "optimize_portfolios", "calculate_esg_scores", "calculate_risk_metrics",
       "simulate_behavioral_effects", "simulate", "print_summary" >>

\* the stage methods in the order run() calls them
run_stages ==
    << "setup", "generate_market_data", "assign_initial_portfolios",
       "optimize_portfolios", "calculate_risk_metrics", "calculate_esg_scores",
       "simulate_behavioral_effects", "simulate", "print_summary" >>

\* the n_periods an engine is constructed with: none, one, the rows of the
\* generated panels, and more than those rows
NPeriods == { 0, 1, PanelRows, PanelRows + 1 }

\* no stand-alone object or call is under way
NoCall == [ fn |-> "none" ]

\* SimulationEngine(n_clients, n_periods)
EngineInit ==
    /\ n_clients \in 0..MaxClients
    /\ n_periods \in NPeriods
    /\ clients = << >>
    /\ market_data = << >>
    /\ portfolio_history = << >>
    /\ risk_metrics = << >>
    /\ esg_scores = << >>
    /\ behavioral_impacts = << >>
    /\ asset_esg_scores = << >>
    /\ pc = "constructed"
    /\ idx = 1
    /\ log = << >>
    /\ opt_log = << >>
    /\ solved = << >>

Init ==
    /\ EngineInit
    /\ profile = ESGProfile(0, 0, 0)
    /\ call = NoCall

\* run() calls the stage method after the one that returned, or returns
call_stage(stage) ==
    /\ pc' = stage
    /\ idx' = 1
    /\ log' = IF stage = "done" THEN log ELSE Append(log, stage)

next_stage(stage) ==
    LET p == CHOOSE i \in DOMAIN run_stages : run_stages[i] = stage
    IN  IF p = Len(run_stages) THEN "done" ELSE run_stages[p + 1]

\* an exception leaves the stage and run()
raise ==
    /\ pc' = "raised"
    /\ UNCHANGED << idx, log >>

\* engine.run()
Run ==
    /\ pc = "constructed"
    /\ call_stage(run_stages[1])
    /\ UNCHANGED << n_clients, n_periods, clients, market_data, portfolio_history,
                    risk_metrics, esg_scores, behavioral_impacts, asset_esg_scores,
                    opt_log, solved, profile, call >>

\* setup(): one Client per demographics row, client_id the row index 0..n_clients-1
Setup ==
    /\ pc = "setup"
    /\ \E risk \in [ 1..n_clients -> RiskTolerances ] :
         clients' = clients \o [ i \in 1..n_clients |-> Client(i - 1, risk[i]) ]
    /\ call_stage(next_stage("setup"))
    /\ UNCHANGED << n_clients, n_periods, market_data, portfolio_history,
                    risk_metrics, esg_scores, behavioral_impacts, asset_esg_scores,
                    opt_log, solved, profile, call >>

\* generate_market_data(): the four panels are generated anew, so nothing solved on
\* the panels before them is left
GenerateMarketData ==
    /\ pc = "generate_market_data"
    /\ \E v \in PanelVariants :
         market_data' = [ name \in DOMAIN market_data
                                   \cup { "equities", "bonds", "alternatives", "macro" } |->
                            IF name = "equities" THEN generate_equity_returns(v)
                            ELSE IF name = "bonds" THEN generate_fixed_income(v)
                            ELSE IF name = "alternatives" THEN generate_alternatives(v)
                            ELSE IF name = "macro" THEN generate_macroeconomic(v)
                            ELSE market_data[name] ]
    /\ call_stage(next_stage("generate_market_data"))
    /\ solved' = << >>
    /\ UNCHANGED << n_clients, n_periods, clients, portfolio_history,
                    risk_metrics, esg_scores, behavioral_impacts, asset_esg_scores,
                    opt_log, profile, call >>

\* assign_initial_portfolios(): one turn of its loop
AssignClient ==
    /\ pc = "assign_initial_portfolios"
    /\ idx <= Len(clients)
    /\ clients' = [ clients EXCEPT ![idx] = assign_initial_portfolio(@, market_data) ]
    /\ idx' = idx + 1
    /\ UNCHANGED << n_clients, n_periods, market_data, portfolio_history,
                    risk_metrics, esg_scores, behavioral_impacts, asset_esg_scores,
                    pc, log, opt_log, solved, profile, call >>

\* optimize_portfolios(): one turn of its loop. The solver is deterministic, so a
\* mode already solved on this panel returns what it returned before.
OptimizeClient ==
    /\ pc = "optimize_portfolios"
    /\ idx <= Len(clients)
    /\ LET client      == clients[idx]
           all_returns == all_returns_of(market_data)
           mode        == select_optimizer(client.risk_tolerance)
       IN  \E result \in ( IF mode \in DOMAIN solved THEN { solved[mode] }
                           ELSE optimizer_results(mode, all_returns) ) :
             LET out == apply_optimizer_result(client, result, all_returns)
             IN  /\ solved' = [ m \in DOMAIN solved \cup { mode } |->
                                  IF m = mode THEN result ELSE solved[m] ]
                 /\ opt_log' = Append(opt_log, [ client_id |-> client.client_id,
                                                 mode |-> mode, result |-> result ])
                 /\ IF out.raised
                    THEN raise /\ UNCHANGED clients
                    ELSE /\ clients' = [ clients EXCEPT ![idx] = out.client ]
                         /\ idx' = idx + 1
                         /\ UNCHANGED << pc, log >>
    /\ UNCHANGED << n_clients, n_periods, market_data, portfolio_history,
                    risk_metrics, esg_scores, behavioral_impacts, asset_esg_scores,
                    profile, call >>

\* calculate_risk_metrics(): one turn of its loop
RiskClient ==
    /\ pc = "calculate_risk_metrics"
    /\ idx <= Len(clients)
    /\ LET all_returns == all_returns_of(market_data)
       IN  /\ clients' = [ clients EXCEPT ![idx] = risk_client(@, all_returns) ]
           /\ risk_metrics' = Append(risk_metrics, risk_record(clients[idx], all_returns))
    /\ idx' = idx + 1
    /\ UNCHANGED << n_clients, n_periods, market_data, portfolio_history,
                    esg_scores, behavioral_impacts, asset_esg_scores,
                    pc, log, opt_log, solved, profile, call >>

\* calculate_esg_scores(): the scores of all assets, before its loop
ScoreAssets ==
    /\ pc = "calculate_esg_scores"
    /\ DOMAIN asset_esg_scores = {}
    /\ LET all_assets == all_assets_of(market_data)
           w == variant_of(all_returns_of(market_data))
       IN  asset_esg_scores' =
                 [ asset \in Range(all_assets) |->
                     calculate_asset_esg_score(
                         CHOOSE c \in DOMAIN all_assets : all_assets[c] = asset, w) ]
    /\ UNCHANGED << n_clients, n_periods, clients, market_data, portfolio_history,
                    risk_metrics, esg_scores, behavioral_impacts,
                    pc, idx, log, opt_log, solved, profile, call >>

\* calculate_esg_scores(): one turn of its loop
EsgClient ==
    /\ pc = "calculate_esg_scores"
    /\ DOMAIN asset_esg_scores /= {}
    /\ idx <= Len(clients)
    /\ clients' = [ clients EXCEPT ![idx] = esg_client(@, market_data, asset_esg_scores) ]
    /\ esg_scores' = Append(esg_scores, esg_record(clients[idx], market_data, asset_esg_scores))
    /\ idx' = idx + 1
    /\ UNCHANGED << n_clients, n_periods, market_data, portfolio_history,
                    risk_metrics, behavioral_impacts, asset_esg_scores,
                    pc, log, opt_log, solved, profile, call >>

\* simulate_behavioral_effects(): one turn of its loop
BehavioralClient ==
    /\ pc = "simulate_behavioral_effects"
    /\ idx <= Len(clients)
    /\ behavioral_impacts' = Append(behavioral_impacts, behavioral_record(clients[idx]))
    /\ idx' = idx + 1
    /\ UNCHANGED << n_clients, n_periods, clients, market_data, portfolio_history,
                    risk_metrics, esg_scores, asset_esg_scores,
                    pc, log, opt_log, solved, profile, call >>

\* simulate() building the prices in place, in the equities panel of market_data
SimulateClient_in_place ==
    /\ pc = "simulate"
    /\ idx <= Len(clients)
    /\ market_data' =
           [ market_data EXCEPT !["equities"].data =
               [ name \in DOMAIN @ |-> [ t \in 1..PanelRows |-> cumprod(@[name], t) ] ] ]
    /\ IF n_periods > PanelRows
       THEN raise /\ UNCHANGED portfolio_history
       ELSE /\ portfolio_history' =
                   Append(portfolio_history, value_path(clients[idx], market_data, n_periods))
            /\ idx' = idx + 1
            /\ UNCHANGED << pc, log >>
    /\ UNCHANGED << n_clients, n_periods, clients,
                    risk_metrics, esg_scores, behavioral_impacts, asset_esg_scores,
                    opt_log, solved, profile, call >>

\* simulate(): one turn of its loop; asset_prices.iloc[t] raises IndexError for a
\* t that is no row of the panel
SimulateClient ==
    /\ pc = "simulate"
    /\ idx <= Len(clients)
    /\ IF n_periods > PanelRows
       THEN raise /\ UNCHANGED portfolio_history
       ELSE /\ portfolio_history' =
                   Append(portfolio_history, value_path(clients[idx], market_data, n_periods))
            /\ idx' = idx + 1
            /\ UNCHANGED << pc, log >>
    /\ UNCHANGED << n_clients, n_periods, clients, market_data,
                    risk_metrics, esg_scores, behavioral_impacts, asset_esg_scores,
                    opt_log, solved, profile, call >>

\* the stages that loop over self.clients
loop_stages ==
    { "assign_initial_portfolios", "optimize_portfolios", "calculate_risk_metrics",
      "calculate_esg_scores", "simulate_behavioral_effects", "simulate" }

\* the loop of a stage is over: the stage returns and run() goes on
StageReturn ==
    /\ pc \in loop_stages
    /\ idx > Len(clients)
    /\ pc = "calculate_esg_scores" => DOMAIN asset_esg_scores /= {}
    /\ asset_esg_scores' = << >>
    /\ call_stage(next_stage(pc))
    /\ UNCHANGED << n_clients, n_periods, clients, market_data, portfolio_history,
                    risk_metrics, esg_scores, behavioral_impacts,
                    opt_log, solved, profile, call >>

\* print_summary(): hist.iloc[-1] raises IndexError on an empty value path
PrintSummary ==
    /\ pc = "print_summary"
    /\ IF \E h \in DOMAIN portfolio_history : Len(portfolio_history[h].values) = 0
       THEN raise
       ELSE call_stage(next_stage("print_summary"))
    /\ UNCHANGED << n_clients, n_periods, clients, market_data, portfolio_history,
                    risk_metrics, esg_scores, behavioral_impacts, asset_esg_scores,
                    opt_log, solved, profile, call >>

Next ==
    \/ Run
    \/ Setup
    \/ GenerateMarketData
    \/ AssignClient
    \/ OptimizeClient
    \/ RiskClient
    \/ ScoreAssets
    \/ EsgClient
    \/ BehavioralClient
    \/ SimulateClient
    \/ StageReturn
    \/ PrintSummary

Spec == Init /\ [][Next]_vars

-----------------------------------------------------------------------------
(* run() called again on an engine whose run() has returned *)

\* the runs of one engine
MaxRuns == 2

\* SimulationEngine(n_clients, n_periods) with panels long enough for n_periods
InitRerun ==
    /\ Init
    /\ n_clients = 1
    /\ n_periods = 1

\* engine.run() on an engine whose run() has returned: __init__ is not run again,
\* so the stages start from the collections the engine holds
RunAgain ==
    /\ pc = "done"
    /\ Len(log) < MaxRuns * Len(run_stages)
    /\ call_stage(run_stages[1])
    /\ UNCHANGED << n_clients, n_periods, clients, market_data, portfolio_history,
                    risk_metrics, esg_scores, behavioral_impacts, asset_esg_scores,
                    opt_log, solved, profile, call >>

NextRerun ==
    \/ Next
    \/ RunAgain

SpecRerun == InitRerun /\ [][NextRerun]_vars

-----------------------------------------------------------------------------
(* The engine left as constructed, for the specifications of stand-alone objects *)

EngineIdle ==
    /\ n_clients = 0
    /\ n_periods = 0
    /\ clients = << >>
    /\ market_data = << >>
    /\ portfolio_history = << >>
    /\ risk_metrics = << >>
    /\ esg_scores = << >>
    /\ behavioral_impacts = << >>
    /\ asset_esg_scores = << >>
    /\ pc = "constructed"
    /\ idx = 1
    /\ log = << >>
    /\ opt_log = << >>
    /\ solved = << >>

-----------------------------------------------------------------------------
(* models/esg.py: an ESGProfile object and the operations of its class *)

\* pillar scores 0, 30, 60, 70, 80, 90 and 100 points
PillarScores == { 0, 9000, 18000, 21000, 24000, 27000, 30000 }

\* an optional argument: left out, or one of the scores
OptionalScore == { << >> } \cup { << x >> : x \in PillarScores }

InitESG ==
    /\ EngineIdle
    /\ profile = ESGProfile(0, 0, 0)
    /\ call = NoCall

\* p = ESGProfile(environmental=e, social=s, governance=g)
ESGConstruct ==
    /\ \E e \in PillarScores, s \in PillarScores, g \in PillarScores :
         profile' = ESGProfile(e, s, g)
    /\ UNCHANGED << engine_vars, call >>

\* p.update(environmental=..., social=..., governance=...)
ESGUpdate ==
    /\ \E e \in OptionalScore, s \in OptionalScore, g \in OptionalScore :
         profile' = ESGProfile_update(profile, e, s, g)
    /\ UNCHANGED << engine_vars, call >>

\* p.environmental = x, p.social = x or p.governance = x: the dataclass is not
\* frozen, a field is assigned like any attribute
ESGSetPillar ==
    /\ \E field \in { "environmental", "social", "governance" }, x \in PillarScores :
         profile' = [ profile EXCEPT ![field] = x ]
    /\ UNCHANGED << engine_vars, call >>

NextESG == ESGConstruct \/ ESGUpdate \/ ESGSetPillar

SpecESG == InitESG /\ [][NextESG]_vars

-----------------------------------------------------------------------------
(* analytics/esg_analytics.py: a call of calculate_portfolio_esg_score *)

\* the weights callers pass per asset, in hundredths
EsgWeights == { -50, 0, 50, 100 }

\* the portfolio_weights callers pass: a weight for each of three assets
EsgWeightArgs == [ { "Equity_1", "Bond_1", "Alt_1" } -> EsgWeights ]

\* the asset_esg_scores callers pass: profiles for two of the three assets
EsgScoreArgs ==
    { [ asset \in { "Equity_1", "Bond_1" } |->
          IF asset = "Equity_1"
          THEN ESGProfile_update(ESGProfile(e, 18000, 21000), << >>, << >>, << >>)
          ELSE ESGProfile_update(ESGProfile(18000, 18000, 18000), << >>, << >>, << >>) ] :
        e \in { 18000, 24000 } }

\* portfolio_esg = esg_analytics.calculate_portfolio_esg_score(portfolio_weights,
\* asset_esg_scores)
CallPortfolioEsgScore ==
    /\ call.fn = "none"
    /\ \E portfolio_weights \in EsgWeightArgs, scores \in EsgScoreArgs :
         call' = [ fn |-> "calculate_portfolio_esg_score",
                   portfolio_weights |-> portfolio_weights,
                   asset_esg_scores |-> scores,
                   result |-> calculate_portfolio_esg_score(portfolio_weights, scores) ]
    /\ UNCHANGED << engine_vars, profile >>

NextPortfolioESG == CallPortfolioEsgScore

SpecPortfolioESG == InitESG /\ [][NextPortfolioESG]_vars

-----------------------------------------------------------------------------
(* analytics/portfolio_optimization.py: a call of optimize_sharpe_ratio *)

\* weights the solver can stop at, per asset: a grid that also has points outside [0, 1]
WeightGrid == { -25, 0, 25, 50, 75, 100, 125 }

\* the points in reach of the solver: every grid point
SharpeReach == { << a, b, c, d >> : a \in WeightGrid, b \in WeightGrid,
                                    c \in WeightGrid, d \in WeightGrid }

\* the constraints arguments callers pass: none; a floor on the first weight; a cap
\* on the second; the third pinned; the budget restated together with a floor
ConstraintArgs ==
    { None,
      Given(<< Constraint("ineq", << 1, 0, 0, 0 >>, 25) >>),
      Given(<< Constraint("ineq", << 0, -1, 0, 0 >>, -50) >>),
      Given(<< Constraint("eq", << 0, 0, 1, 0 >>, 25) >>),
      Given(<< budget_constraint(4), Constraint("ineq", << 1, 0, 0, 0 >>, 25) >>) }

InitSharpe ==
    /\ EngineIdle
    /\ profile = ESGProfile(0, 0, 0)
    /\ call = NoCall

\* the returns panels callers pass: the generated panels, and a panel whose columns
\* are constant
SharpePanels ==
    { concat(generate_equity_returns(v), generate_fixed_income(v), generate_alternatives(v)) :
        v \in PanelVariants }
    \cup { DataFrame([ c \in 1..4, t \in 1..PanelRows |-> c - 2 ],
                     << "Equity_1", "Equity_2", "Bond_1", "Alt_1" >>) }

\* result = optimizer.optimize_sharpe_ratio(returns, constraints)
CallOptimizeSharpe ==
    /\ call.fn = "none"
    /\ \E returns \in SharpePanels, constraints \in ConstraintArgs :
         \E result \in optimize_sharpe_ratio(returns, constraints, SharpeReach) :
             call' = [ fn |-> "optimize_sharpe_ratio", returns |-> returns,
                       constraints |-> constraints, result |-> result ]
    /\ UNCHANGED << engine_vars, profile >>

NextSharpe == CallOptimizeSharpe

SpecSharpe == InitSharpe /\ [][NextSharpe]_vars

-----------------------------------------------------------------------------
(* analytics/portfolio_optimization.py: a call of black_litterman_optimization on *)
(* a panel of one asset                                                           *)

\* the panels callers pass: one column of PanelRows returns
BlackLittermanPanels ==
    { DataFrame([ c \in 1..1, t \in 1..PanelRows |-> column[t] ], << "Equity_1" >>) :
        column \in [ 1..PanelRows -> { -1, 1, 2 } ] }

\* the market_caps callers pass
MarketCaps == { << 1 >>, << 3 >> }

\* the views callers pass, with the confidence of each: none; one on the asset of
\* the panel; one on an asset the panel does not hold
ViewArgs ==
    { [ views |-> << >>, confidence |-> << >> ] }
    \cup { [ views |-> [ asset \in { "Equity_1" } |-> q ],
             confidence |-> [ asset \in { "Equity_1" } |-> c ] ] :
             q \in { -1, 1, 3 }, c \in { 0, 5, 10 } }
    \cup { [ views |-> [ asset \in { "Bond_9" } |-> 1 ],
             confidence |-> [ asset \in { "Bond_9" } |-> 5 ] ] }

\* the points in reach of the solver
BlackLittermanReach == { << a >> : a \in WeightGrid }

\* result = optimizer.black_litterman_optimization(returns, market_caps, views,
\* confidence)
CallBlackLitterman ==
    /\ call.fn = "none"
    /\ \E returns \in BlackLittermanPanels, market_caps \in MarketCaps, v \in ViewArgs :
         \E result \in black_litterman_optimization(returns, market_caps, v.views,
                                                    v.confidence, BlackLittermanReach) :
             call' = [ fn |-> "black_litterman_optimization", returns |-> returns,
                       market_caps |-> market_caps, views |-> v.views,
                       confidence |-> v.confidence, result |-> result ]
    /\ UNCHANGED << engine_vars, profile >>

NextBlackLitterman == CallBlackLitterman

SpecBlackLitterman == InitSharpe /\ [][NextBlackLitterman]_vars

-----------------------------------------------------------------------------
(* analytics/portfolio_optimization.py: a call of risk_parity_optimization on a   *)
(* panel of two assets, the solver reporting a minimiser of the objective         *)

\* the panels callers pass: two columns; the first row stands off the later rows
\* by spread[c], the later rows hold level
RiskParityPanels ==
    { DataFrame([ c \in 1..2, t \in 1..PanelRows |->
                    IF t = 1 THEN level + spread[c] ELSE level ],
                << "Equity_1", "Bond_1" >>) :
        spread \in { << a, b >> : a \in 1..5, b \in 1..5 }, level \in { -1, 0, 1 } }

\* the grid of weight vectors the solver moves on
RiskParityGrid == { << a, b >> : a \in WeightGrid, b \in WeightGrid }

\* result = optimizer.risk_parity_optimization(returns)
CallRiskParity ==
    /\ call.fn = "none"
    /\ \E returns \in RiskParityPanels :
         \E result \in risk_parity_optimization(returns,
                           risk_parity_minimisers(returns, RiskParityGrid)) :
             call' = [ fn |-> "risk_parity_optimization", returns |-> returns,
                       result |-> result ]
    /\ UNCHANGED << engine_vars, profile >>

NextRiskParity == CallRiskParity

SpecRiskParity == InitSharpe /\ [][NextRiskParity]_vars

-----------------------------------------------------------------------------
(* simulation/alternative_investments.py: money is held in cents, a rate in       *)
(* percent; an optional list argument is << >> (None) or << list >>               *)

\* self.j_curve_params, in percent
j_curve_params ==
    [ asset_type \in { "Private Equity", "Real Estate", "Hedge Fund" } |->
        IF asset_type = "Private Equity"
        THEN [ depth |-> -15, recovery_time |-> 3, peak_return |-> 25 ]
        ELSE IF asset_type = "Real Estate"
        THEN [ depth |-> -5, recovery_time |-> 2, peak_return |-> 15 ]
        ELSE [ depth |-> -2, recovery_time |-> 1, peak_return |-> 12 ] ]

\* decline_periods = min(params['recovery_time'], n_periods // 3)
decline_periods(asset_type, periods) ==
    Min(j_curve_params[asset_type].recovery_time, periods \div 3)

\* AlternativeInvestmentSimulator.simulate_j_curve(asset_type, n_periods): the series
\* of returns, entry i + 1 holding returns[i]
simulate_j_curve(asset_type, periods) ==
    LET params == j_curve_params[asset_type]
        d      == decline_periods(asset_type, periods)
    IN  [ k \in 1..periods |->
            LET i == k - 1
            IN  IF i < d
                THEN Float(params.depth * (d - i), 100 * d)
                ELSE Float(params.peak_return * (i - d), 100 * (periods - d)) ]

\* zip(cash_flows_in, cash_flows_out): the pairs enumerate() walks, as many as the
\* shorter list has
zip(cash_flows_in, cash_flows_out) ==
    [ i \in 1..Min(Len(cash_flows_in), Len(cash_flows_out)) |->
        << cash_flows_in[i], cash_flows_out[i] >> ]

RECURSIVE power(_, _)
power(base, exponent) == IF exponent = 0 THEN 1 ELSE base * power(base, exponent - 1)

\* npv(rate) of _calculate_irr: the sum over the pairs of
\* (cf_out - cf_in) / (1 + rate) ** i, or of (cf_out - cf_in) when rate is -1. For
\* a rate other than -1 the value is held multiplied by (1 + rate) ** (pairs - 1)
\* and by the matching power of the denominator of 1 + rate, which leaves its
\* zeros where they are.
npv(rate, cash_flows_in, cash_flows_out) ==
    LET pairs == zip(cash_flows_in, cash_flows_out)
        last  == Len(pairs) - 1
        g     == gcd(Abs(100 + rate), 100)
        a     == (100 + rate) \div g
        b     == 100 \div g
    IN  IF rate /= -100
        THEN SumSeq([ k \in DOMAIN pairs |->
                        (pairs[k][2] - pairs[k][1]) * power(b, k - 1) * power(a, last - (k - 1)) ])
        ELSE SumSeq([ k \in DOMAIN pairs |-> pairs[k][2] - pairs[k][1] ])

\* scipy.optimize.newton(npv, 0.1): the secant iteration either raises RuntimeError
\* (no convergence, or a flat npv), or returns a rate at which npv is zero: any of
\* the rates in reach where it is. A None list makes zip raise TypeError in the
\* first evaluation of npv.
newton(cash_flows_in, cash_flows_out, reach) ==
    IF cash_flows_in = << >> \/ cash_flows_out = << >>
    THEN { Raised("TypeError") }
    ELSE { Raised("RuntimeError") }
         \cup { [ root |-> rate ] :
                  rate \in { r \in reach : npv(r, cash_flows_in[1], cash_flows_out[1]) = 0 } }

\* _calculate_irr with a handler that returns the starting guess of newton, 10%
calculate_irr_keeps_guess(cash_flows_in, cash_flows_out, reach) ==
    { IF "raised" \in DOMAIN outcome THEN 10 ELSE outcome.root :
        outcome \in newton(cash_flows_in, cash_flows_out, reach) }

\* AlternativeInvestmentSimulator._calculate_irr(cash_flows_in, cash_flows_out): the
\* values the call can return, in percent. The whole body is inside try ... except:
\* return 0.0
calculate_irr(cash_flows_in, cash_flows_out, reach) ==
    { IF "raised" \in DOMAIN outcome THEN 0 ELSE outcome.root :
        outcome \in newton(cash_flows_in, cash_flows_out, reach) }

\* [x] * count, empty for a count below 1
repeat(x, count) == [ k \in 1..count |-> x ]

\* value * (1 + rate) of an amount in cents, rounded down to the cent
grown(value, rate) == (value * (rate.den + rate.num)) \div rate.den

\* capital_calls of simulate_private_equity: 30% of the commitment, then 20% of it
\* for each later call, min(5, n_periods // 2) calls, then zeros
capital_call_schedule(commitment, periods) ==
    LET call_periods == Min(5, periods \div 2)
    IN  [ k \in 1..call_periods |->
            IF k = 1 THEN (commitment * 30) \div 100 ELSE (commitment * 20) \div 100 ]
        \o repeat(0, periods - call_periods)

\* the list nav after k turns of "for i in range(n_periods)": nav starts as
\* [initial] and each turn appends nav[-1] * (1 + returns[i]), plus capital_calls[i]
\* while i < len(capital_calls)
RECURSIVE nav_list(_, _, _, _)
nav_list(initial, returns, capital_calls, k) ==
    IF k = 0 THEN << initial >>
    ELSE LET nav == nav_list(initial, returns, capital_calls, k - 1)
         IN  Append(nav, grown(nav[Len(nav)], returns[k])
                         + ( IF k <= Len(capital_calls) THEN capital_calls[k] ELSE 0 ))

\* distributions of simulate_private_equity: entry i + 1 holds distributions[i], and
\* nav[k] of the model is nav[k - 1] of the code: for i in range(3, n_periods),
\* nav[i] * 0.1 if nav[i] > nav[i-1]
private_equity_distributions(nav, periods) ==
    [ k \in 1..periods |->
        IF k - 1 >= 3 /\ nav[k] > nav[k - 1] THEN nav[k] \div 10 ELSE 0 ]

\* the two lists simulate_private_equity passes to _calculate_irr
private_equity_flows(commitment, periods) ==
    LET capital_calls == capital_call_schedule(commitment, periods)
        nav == nav_list(0, simulate_j_curve("Private Equity", periods), capital_calls, periods)
    IN  [ cash_flows_in  |-> capital_calls,
          cash_flows_out |-> private_equity_distributions(nav, periods)
                             \o << nav[Len(nav)] >> ]

\* AlternativeInvestmentSimulator.simulate_private_equity(vintage_year, commitment,
\* n_periods): the dicts the call can return
simulate_private_equity(vintage_year, commitment, periods, reach) ==
    LET capital_calls == capital_call_schedule(commitment, periods)
        returns == simulate_j_curve("Private Equity", periods)
        nav     == nav_list(0, returns, capital_calls, periods)
        distributions == private_equity_distributions(nav, periods)
        flows   == private_equity_flows(commitment, periods)
    IN  { [ capital_calls |-> capital_calls,
            distributions |-> distributions,
            nav |-> Tail(nav),
            returns |-> returns,
            total_irr |-> irr ] :
          irr \in calculate_irr(<< flows.cash_flows_in >>, << flows.cash_flows_out >>, reach) }

\* rental_yield = 0.05
rental_yield == Float(5, 100)

\* the two lists simulate_real_estate passes to _calculate_irr
real_estate_flows(initial_investment, periods) ==
    LET appreciation_returns ==
            [ k \in 1..periods |->
                float_add(simulate_j_curve("Real Estate", periods)[k], rental_yield) ]
        nav == nav_list(initial_investment, appreciation_returns, << >>, periods)
    IN  [ cash_flows_in  |-> << initial_investment >> \o repeat(0, periods - 1),
          cash_flows_out |-> repeat(grown(initial_investment, rental_yield)
                                    - initial_investment, periods)
                             \o << nav[Len(nav)] >> ]

\* AlternativeInvestmentSimulator.simulate_real_estate(vintage_year,
\* initial_investment, n_periods): the dicts the call can return
simulate_real_estate(vintage_year, initial_investment, periods, reach) ==
    LET base_returns  == simulate_j_curve("Real Estate", periods)
        rental_income == repeat(grown(initial_investment, rental_yield)
                                - initial_investment, periods)
        appreciation_returns ==
            [ k \in 1..periods |-> float_add(base_returns[k], rental_yield) ]
        nav   == nav_list(initial_investment, appreciation_returns, << >>, periods)
        flows == real_estate_flows(initial_investment, periods)
    IN  { [ nav |-> Tail(nav),
            rental_income |-> rental_income,
            appreciation_returns |-> appreciation_returns,
            total_irr |-> irr ] :
          irr \in calculate_irr(<< flows.cash_flows_in >>, << flows.cash_flows_out >>, reach) }

\* net_returns of simulate_hedge_fund: the management fee of 2% comes off the gross
\* return, and 20% of what is left above the hurdle rate of 8% comes off after it
net_return(gross_return) ==
    LET after_mgmt_fee == float_sub(gross_return, Float(2, 100))
        hurdle_rate    == Float(8, 100)
    IN  IF ~float_leq(after_mgmt_fee, hurdle_rate)
        THEN float_sub(after_mgmt_fee,
                       float_mul(float_sub(after_mgmt_fee, hurdle_rate), Float(20, 100)))
        ELSE after_mgmt_fee

\* the two lists simulate_hedge_fund passes to _calculate_irr
hedge_fund_flows(initial_investment, periods, gross_returns) ==
    LET net_returns == [ k \in 1..periods |-> net_return(gross_returns[k]) ]
        nav == nav_list(initial_investment, net_returns, << >>, periods)
    IN  [ cash_flows_in  |-> << initial_investment >> \o repeat(0, periods - 1),
          cash_flows_out |-> repeat(0, periods) \o << nav[Len(nav)] >> ]

\* the gross returns alpha + beta * market_returns, drawn from numpy's random state:
\* the model draws one of three series, in percent 4 throughout, 20 throughout, or
\* the two in turn
gross_return_draws(periods) ==
    { [ k \in 1..periods |-> Float(4, 100) ],
      [ k \in 1..periods |-> Float(20, 100) ],
      [ k \in 1..periods |-> IF k % 2 = 1 THEN Float(20, 100) ELSE Float(4, 100) ] }

\* AlternativeInvestmentSimulator.simulate_hedge_fund(vintage_year,
\* initial_investment, n_periods): the dicts the call can return
simulate_hedge_fund(vintage_year, initial_investment, periods, reach) ==
    UNION { LET net_returns == [ k \in 1..periods |-> net_return(gross_returns[k]) ]
                nav   == nav_list(initial_investment, net_returns, << >>, periods)
                flows == hedge_fund_flows(initial_investment, periods, gross_returns)
            IN  { [ nav |-> Tail(nav),
                    gross_returns |-> gross_returns,
                    net_returns |-> net_returns,
                    total_irr |-> irr ] :
                  irr \in calculate_irr(<< flows.cash_flows_in >>,
                                        << flows.cash_flows_out >>, reach) } :
            gross_returns \in gross_return_draws(periods) }

\* an AlternativeInvestment, with the fields simulate_portfolio_alternatives reads
AlternativeInvestment(asset_id, asset_type, vintage_year, initial_commitment) ==
    [ asset_id |-> asset_id, asset_type |-> asset_type, vintage_year |-> vintage_year,
      initial_commitment |-> initial_commitment ]

\* sim_result of one turn of "for investment in alternative_investments": the dicts
\* the simulator of the investment's type can return; a turn that ends at "continue"
\* has none
investment_results(investment, periods, reach) ==
    IF investment.asset_type = "Private Equity"
    THEN simulate_private_equity(investment.vintage_year, investment.initial_commitment,
                                 periods, reach)
    ELSE IF investment.asset_type = "Real Estate"
    THEN simulate_real_estate(investment.vintage_year, investment.initial_commitment,
                              periods, reach)
    ELSE IF investment.asset_type = "Hedge Fund"
    THEN simulate_hedge_fund(investment.vintage_year, investment.initial_commitment,
                             periods, reach)
    ELSE { [ skipped |-> TRUE ] }

\* weight = portfolio_weights.get(investment.asset_id, 1.0 / len(alternative_investments))
investment_weight(portfolio_weights, alternative_investments, j) ==
    IF alternative_investments[j].asset_id \in DOMAIN portfolio_weights
    THEN Float(portfolio_weights[alternative_investments[j].asset_id], 100)
    ELSE Float(1, Len(alternative_investments))

\* the entries of a list that satisfy keep[j], in order
RECURSIVE select(_, _)
select(list, keep) ==
    IF list = << >> THEN << >>
    ELSE ( IF Head(keep) THEN << Head(list) >> ELSE << >> ) \o select(Tail(list), Tail(keep))

\* AlternativeInvestmentSimulator.simulate_portfolio_alternatives(portfolio_weights,
\* alternative_investments, n_periods), sim_results[j] being the sim_result of the
\* j-th investment
simulate_portfolio_alternatives(portfolio_weights, alternative_investments, periods, sim_results) ==
    LET weight(j) == investment_weight(portfolio_weights, alternative_investments, j)
        simulated == [ j \in DOMAIN sim_results |-> "nav" \in DOMAIN sim_results[j] ]
        with_returns == [ j \in DOMAIN sim_results |-> "returns" \in DOMAIN sim_results[j] ]
        portfolio_nav ==
            [ i \in 1..periods |->
                float_sum(select([ j \in DOMAIN sim_results |->
                                     IF simulated[j]
                                     THEN float_mul(Float(sim_results[j].nav[i], 1), weight(j))
                                     ELSE Float(0, 1) ],
                                 simulated)) ]
        portfolio_returns ==
            [ i \in 1..periods |->
                float_sum(select([ j \in DOMAIN sim_results |->
                                     IF with_returns[j]
                                     THEN float_mul(sim_results[j].returns[i], weight(j))
                                     ELSE Float(0, 1) ],
                                 with_returns)) ]
    IN  [ portfolio_nav |-> portfolio_nav,
          portfolio_returns |-> portfolio_returns,
          total_portfolio_value |->
              IF portfolio_nav /= << >> THEN portfolio_nav[Len(portfolio_nav)] ELSE Float(0, 1) ]

-----------------------------------------------------------------------------
(* simulation/alternative_investments.py: calls on an AlternativeInvestmentSimulator *)

\* the cash flows callers pass to _calculate_irr
CashFlows == { 0, 100, 150 }

\* the list arguments callers pass: None, or a list of up to MaxSeriesLen cash flows
CashFlowArgs == { << >> } \cup { << list >> : list \in UNION { [ 1..n -> CashFlows ] : n \in 0..MaxSeriesLen } }

\* the rates in reach of the root finder, in percent
IrrRates == { -50, 0, 25, 50, 100 }

\* irr = simulator._calculate_irr(cash_flows_in, cash_flows_out)
CallCalculateIrr ==
    /\ call.fn = "none"
    /\ \E cash_flows_in \in CashFlowArgs, cash_flows_out \in CashFlowArgs :
         \E result \in calculate_irr(cash_flows_in, cash_flows_out, IrrRates) :
             call' = [ fn |-> "_calculate_irr", cash_flows_in |-> cash_flows_in,
                       cash_flows_out |-> cash_flows_out, result |-> result ]
    /\ UNCHANGED << engine_vars, profile >>

\* returns = simulator.simulate_j_curve(asset_type, n_periods)
CallSimulateJCurve ==
    /\ call.fn = "none"
    /\ \E asset_type \in DOMAIN j_curve_params, periods \in 0..MaxPeriods :
         call' = [ fn |-> "simulate_j_curve", asset_type |-> asset_type,
                   n_periods |-> periods,
                   result |-> simulate_j_curve(asset_type, periods) ]
    /\ UNCHANGED << engine_vars, profile >>

\* the commitments and initial investments callers pass, in cents
Commitments == { 10000, 25000 }

\* the rates in reach of the root finder inside the simulators, in percent
SimulatorIrrRates == { 0, 100 }

\* result = simulator.simulate_private_equity(vintage_year, commitment, n_periods)
CallSimulatePrivateEquity ==
    /\ call.fn = "none"
    /\ \E commitment \in Commitments, periods \in 0..MaxPeriods :
         \E result \in simulate_private_equity(2020, commitment, periods, SimulatorIrrRates) :
             call' = [ fn |-> "simulate_private_equity", commitment |-> commitment,
                       n_periods |-> periods, result |-> result ]
    /\ UNCHANGED << engine_vars, profile >>

\* result = simulator.simulate_real_estate(vintage_year, initial_investment, n_periods)
CallSimulateRealEstate ==
    /\ call.fn = "none"
    /\ \E initial_investment \in Commitments, periods \in 0..MaxPeriods :
         \E result \in simulate_real_estate(2020, initial_investment, periods,
                                            SimulatorIrrRates) :
             call' = [ fn |-> "simulate_real_estate", commitment |-> initial_investment,
                       n_periods |-> periods, result |-> result ]
    /\ UNCHANGED << engine_vars, profile >>

\* result = simulator.simulate_hedge_fund(vintage_year, initial_investment, n_periods)
CallSimulateHedgeFund ==
    /\ call.fn = "none"
    /\ \E initial_investment \in Commitments, periods \in 0..MaxPeriods :
         \E result \in simulate_hedge_fund(2020, initial_investment, periods,
                                           SimulatorIrrRates) :
             call' = [ fn |-> "simulate_hedge_fund", commitment |-> initial_investment,
                       n_periods |-> periods, result |-> result ]
    /\ UNCHANGED << engine_vars, profile >>

\* the investments callers hold: one of each type the simulator knows, and one of a
\* type it does not know
Investments ==
    { AlternativeInvestment("PE_1", "Private Equity", 2020, 10000),
      AlternativeInvestment("RE_1", "Real Estate", 2020, 10000),
      AlternativeInvestment("HF_1", "Hedge Fund", 2020, 25000),
      AlternativeInvestment("CM_1", "Commodity", 2020, 10000) }

\* the lists of investments callers pass: up to two investments
InvestmentLists == UNION { [ 1..n -> Investments ] : n \in 0..2 }

\* the portfolio_weights callers pass, in hundredths: none, or weights for some of
\* the investments
PortfolioWeights ==
    { << >>,
      [ asset_id \in { "PE_1", "RE_1" } |-> IF asset_id = "PE_1" THEN 60 ELSE 40 ],
      [ asset_id \in { "HF_1" } |-> 50 ] }

\* the horizons callers pass to simulate_portfolio_alternatives
PortfolioHorizons == { 0, 1, MaxPeriods \div 2 }

\* result = simulator.simulate_portfolio_alternatives(portfolio_weights,
\* alternative_investments, n_periods)
CallSimulatePortfolioAlternatives ==
    /\ call.fn = "none"
    /\ \E portfolio_weights \in PortfolioWeights,
          alternative_investments \in InvestmentLists,
          periods \in PortfolioHorizons :
         LET results(j) == investment_results(alternative_investments[j], periods,
                                              SimulatorIrrRates)
         IN  \E sim_results \in [ DOMAIN alternative_investments ->
                                    UNION { results(j) : j \in DOMAIN alternative_investments } ] :
               /\ \A j \in DOMAIN alternative_investments : sim_results[j] \in results(j)
               /\ call' = [ fn |-> "simulate_portfolio_alternatives",
                            portfolio_weights |-> portfolio_weights,
                            alternative_investments |-> alternative_investments,
                            n_periods |-> periods,
                            sim_results |-> sim_results,
                            result |-> simulate_portfolio_alternatives(
                                           portfolio_weights, alternative_investments,
                                           periods, sim_results) ]
    /\ UNCHANGED << engine_vars, profile >>

NextAlternatives ==
    \/ CallCalculateIrr
    \/ CallSimulateJCurve
    \/ CallSimulatePrivateEquity
    \/ CallSimulateRealEstate
    \/ CallSimulateHedgeFund
    \/ CallSimulatePortfolioAlternatives

SpecAlternatives == InitSharpe /\ [][NextAlternatives]_vars

-----------------------------------------------------------------------------
(* simulation/simulation_engine.py: the per-client bodies of the loops of stages *)
(* 3 to 8, each client advancing through them on its own; the barrier order of   *)
(* run() is one of the schedules                                                 *)

\* risk tolerances of the clients by position: the max-Sharpe band and the risk
\* parity band in turn, so that clients share an optimizer and differ in it
PipelineTolerances == << 8, 5 >>

\* the draw of the random state behind the panels
PipelineVariants == { 1 }

\* the loop body of a stage has handled the k-th client
has_portfolio(k) == DOMAIN clients[k].portfolio.holdings /= {}

handled(collection, k) ==
    \E r \in DOMAIN collection : collection[r].client_id = clients[k].client_id

projected(k) ==
    \E h \in DOMAIN portfolio_history : portfolio_history[h].name = clients[k].client_id

\* the engine once setup() and generate_market_data() have returned and the asset
\* ESG scores are drawn (lines 159-166), no client handled yet
InitPipeline ==
    /\ n_clients \in 1..MaxClients
    /\ n_periods = PanelRows
    /\ clients = [ i \in 1..n_clients |->
                     Client(i - 1, PipelineTolerances[((i - 1) % Len(PipelineTolerances)) + 1]) ]
    /\ \E v \in PipelineVariants :
         /\ market_data = [ equities |-> generate_equity_returns(v),
                            bonds |-> generate_fixed_income(v),
                            alternatives |-> generate_alternatives(v),
                            macro |-> generate_macroeconomic(v) ]
         /\ asset_esg_scores =
                [ asset \in Range(all_assets_of(market_data)) |->
                    calculate_asset_esg_score(
                        CHOOSE c \in DOMAIN all_assets_of(market_data) :
                            all_assets_of(market_data)[c] = asset, v) ]
    /\ portfolio_history = << >>
    /\ risk_metrics = << >>
    /\ esg_scores = << >>
    /\ behavioral_impacts = << >>
    /\ pc = "pipeline"
    /\ idx = 1
    /\ log = << >>
    /\ opt_log = << >>
    /\ solved = << >>
    /\ profile = ESGProfile(0, 0, 0)
    /\ call = NoCall

\* lines 82-90 for the k-th client
PipelineAssign(k) ==
    /\ pc = "pipeline"
    /\ ~has_portfolio(k)
    /\ clients' = [ clients EXCEPT ![k] = assign_initial_portfolio(@, market_data) ]
    /\ UNCHANGED << n_clients, n_periods, market_data, portfolio_history,
                    risk_metrics, esg_scores, behavioral_impacts, asset_esg_scores,
                    pc, idx, log, opt_log, solved, profile, call >>

\* lines 102-121 for the k-th client
PipelineOptimize(k) ==
    /\ pc = "pipeline"
    /\ has_portfolio(k)
    /\ ~handled(opt_log, k)
    /\ LET client      == clients[k]
           all_returns == all_returns_of(market_data)
           mode        == select_optimizer(client.risk_tolerance)
       IN  \E result \in ( IF mode \in DOMAIN solved THEN { solved[mode] }
                           ELSE optimizer_results(mode, all_returns) ) :
             /\ solved' = [ m \in DOMAIN solved \cup { mode } |->
                              IF m = mode THEN result ELSE solved[m] ]
             /\ opt_log' = Append(opt_log, [ client_id |-> client.client_id,
                                             mode |-> mode, result |-> result ])
             /\ clients' = [ clients EXCEPT ![k] =
                               apply_optimizer_result(client, result, all_returns).client ]
    /\ UNCHANGED << n_clients, n_periods, market_data, portfolio_history,
                    risk_metrics, esg_scores, behavioral_impacts, asset_esg_scores,
                    pc, idx, log, profile, call >>

\* the risk step reading the client at the position of the record it appends
PipelineRisk_positional(k) ==
    /\ pc = "pipeline"
    /\ handled(opt_log, k)
    /\ ~handled(risk_metrics, k)
    /\ LET all_returns == all_returns_of(market_data)
           at          == clients[Len(risk_metrics) + 1]
       IN  /\ clients' = [ clients EXCEPT ![k] = risk_client(@, all_returns) ]
           /\ risk_metrics' =
                  Append(risk_metrics,
                         [ risk_record(at, all_returns) EXCEPT
                             !.client_id = clients[k].client_id ])
    /\ UNCHANGED << n_clients, n_periods, market_data, portfolio_history,
                    esg_scores, behavioral_impacts, asset_esg_scores,
                    pc, idx, log, opt_log, solved, profile, call >>

\* lines 132-155 for the k-th client
PipelineRisk(k) ==
    /\ pc = "pipeline"
    /\ handled(opt_log, k)
    /\ ~handled(risk_metrics, k)
    /\ LET all_returns == all_returns_of(market_data)
       IN  /\ clients' = [ clients EXCEPT ![k] = risk_client(@, all_returns) ]
           /\ risk_metrics' = Append(risk_metrics, risk_record(clients[k], all_returns))
    /\ UNCHANGED << n_clients, n_periods, market_data, portfolio_history,
                    esg_scores, behavioral_impacts, asset_esg_scores,
                    pc, idx, log, opt_log, solved, profile, call >>

\* lines 169-186 for the k-th client
PipelineEsg(k) ==
    /\ pc = "pipeline"
    /\ handled(risk_metrics, k)
    /\ ~handled(esg_scores, k)
    /\ clients' = [ clients EXCEPT ![k] = esg_client(@, market_data, asset_esg_scores) ]
    /\ esg_scores' = Append(esg_scores, esg_record(clients[k], market_data, asset_esg_scores))
    /\ UNCHANGED << n_clients, n_periods, market_data, portfolio_history,
                    risk_metrics, behavioral_impacts, asset_esg_scores,
                    pc, idx, log, opt_log, solved, profile, call >>

\* lines 193-217 for the k-th client
PipelineBehavioral(k) ==
    /\ pc = "pipeline"
    /\ handled(esg_scores, k)
    /\ ~handled(behavioral_impacts, k)
    /\ behavioral_impacts' = Append(behavioral_impacts, behavioral_record(clients[k]))
    /\ UNCHANGED << n_clients, n_periods, clients, market_data, portfolio_history,
                    risk_metrics, esg_scores, asset_esg_scores,
                    pc, idx, log, opt_log, solved, profile, call >>

\* lines 230-234 for the k-th client
PipelineSimulate(k) ==
    /\ pc = "pipeline"
    /\ handled(behavioral_impacts, k)
    /\ ~projected(k)
    /\ portfolio_history' =
           Append(portfolio_history, value_path(clients[k], market_data, n_periods))
    /\ UNCHANGED << n_clients, n_periods, clients, market_data,
                    risk_metrics, esg_scores, behavioral_impacts, asset_esg_scores,
                    pc, idx, log, opt_log, solved, profile, call >>

NextPipeline ==
    \E k \in DOMAIN clients :
        \/ PipelineAssign(k)
        \/ PipelineOptimize(k)
        \/ PipelineRisk(k)
        \/ PipelineEsg(k)
        \/ PipelineBehavioral(k)
        \/ PipelineSimulate(k)

SpecPipeline == InitPipeline /\ [][NextPipeline]_vars

-----------------------------------------------------------------------------
(* analytics/risk_analytics.py: stand-alone calls of RiskAnalytics *)

\* the values a return of a series takes
ReturnValues == { -2, -1, 0, 1, 2 }

\* the non-empty return series of at most MaxSeriesLen periods
ReturnSeries == UNION { [ 1..n -> ReturnValues ] : n \in 1..MaxSeriesLen }

\* confidence levels, in percent
ConfidenceLevels == { 0, 50, 90, 95, 99, 100 }

InitRisk ==
    /\ EngineIdle
    /\ profile = ESGProfile(0, 0, 0)
    /\ call = NoCall

\* risk.historical_var(returns, c) and risk.conditional_var(returns, c)
CallRiskMeasures ==
    /\ call.fn = "none"
    /\ \E returns \in ReturnSeries, confidence \in ConfidenceLevels :
         call' = [ fn |-> "risk_measures", returns |-> returns, confidence |-> confidence,
                   var |-> historical_var(returns, confidence),
                   cvar |-> conditional_var(returns, confidence) ]
    /\ UNCHANGED << engine_vars, profile >>

NextRisk == CallRiskMeasures

SpecRisk == InitRisk /\ [][NextRisk]_vars

\* the names of the stress scenarios
ScenarioNames == { "crash", "rally" }

\* stress factors, in tenths: 0.0, 0.5, 1.0, 2.0
StressFactors == { 0, 5, 10, 20 }

\* the scenario mappings: a dict from some of the names to factors
StressScenarios == UNION { [ names -> StressFactors ] : names \in SUBSET ScenarioNames }

\* the return series, the empty one included
StressSeries == UNION { [ 1..n -> ReturnValues ] : n \in 0..MaxSeriesLen }

\* results = risk.stress_test(portfolio_returns, stress_scenarios)
CallStressTest ==
    /\ call.fn = "none"
    /\ \E returns \in StressSeries, scenarios \in StressScenarios :
         call' = [ fn |-> "stress_test", returns |-> returns, scenarios |-> scenarios,
                   results |-> stress_test(returns, scenarios) ]
    /\ UNCHANGED << engine_vars, profile >>

NextStress == CallStressTest

SpecStress == InitRisk /\ [][NextStress]_vars

-----------------------------------------------------------------------------
(* simulation/behavioral_simulation.py: a call of simulate_behavioral_trading *)

\* the names a behavioral profile can hold: the five of the catalog and one the
\* catalog does not know
BiasNames == bias_effects \cup { "Overconfidence" }

\* bias strengths, in tenths
BiasStrengths == { 0, 5, 8 }

\* the profiles: dicts of at most MaxBiases biases, in insertion order
BiasProfiles ==
    UNION { { b \in [ 1..n -> BiasNames \X BiasStrengths ] :
                \A i \in 1..n, j \in 1..n : i /= j => b[i][1] /= b[j][1] } :
            n \in 0..MaxBiases }

\* the values of a return, in hundredths
BehavioralReturns == { -3, 3 }

\* asset_prices.iloc[0].mean() and asset_prices.iloc[-1].mean()
PriceMeans == { << 1, 2 >>, << 0, 1 >> }

InitBehavioral ==
    /\ EngineIdle
    /\ profile = ESGProfile(0, 0, 0)
    /\ call = NoCall

\* result = simulator.simulate_behavioral_trading(client_behavior, portfolio_returns,
\*                                                market_returns, asset_prices)
CallSimulateBehavioralTrading ==
    /\ call.fn = "none"
    /\ \E biases \in BiasProfiles, n \in 1..MaxSeriesLen, prices \in PriceMeans :
         \E values \in [ 1..n -> BehavioralReturns ] :
             LET portfolio_returns == [ t \in 1..n |-> Float(values[t], 100) ]
                 market_returns    == [ t \in 1..n |-> Float(1, 100) ]
             IN  call' = [ fn |-> "simulate_behavioral_trading",
                           biases |-> biases,
                           portfolio_returns |-> portfolio_returns,
                           market_returns |-> market_returns,
                           anchor_price |-> Float(prices[1], 1),
                           current_price |-> Float(prices[2], 1),
                           result |-> simulate_behavioral_trading(
                                          biases, portfolio_returns, market_returns,
                                          Float(prices[1], 1), Float(prices[2], 1)) ]
    /\ UNCHANGED << engine_vars, profile >>

NextBehavioral == CallSimulateBehavioralTrading

SpecBehavioral == InitBehavioral /\ [][NextBehavioral]_vars

-----------------------------------------------------------------------------
(* Properties of run() and its stages, checked under Spec *)

\* the sum of the values of a dict
RECURSIVE SumValues(_, _)
SumValues(d, keys) ==
    IF keys = {} THEN 0
    ELSE LET k == CHOOSE x \in keys : TRUE IN d[k] + SumValues(d, keys \ {k})

\* run() has called the stage
Called(stage) == stage \in Range(log)

\* the optimizer calls whose result was a failure
FailedCalls == { i \in DOMAIN opt_log : ~opt_log[i].result.success }

\* C1: run() calls setup, generate_market_data, assign_initial_portfolios,
\* optimize_portfolios, calculate_risk_metrics, calculate_esg_scores,
\* simulate_behavioral_effects, simulate, print_summary in exactly that order, none
\* twice (the calls so far are always a prefix of that list, and all nine once run()
\* has returned), and no stage has handled any client before the stage before it
\* has handled every client.
C1_StagesInOrder ==
    LET order == << "setup", "generate_market_data", "assign_initial_portfolios",
                    "optimize_portfolios", "calculate_risk_metrics",
                    "calculate_esg_scores", "simulate_behavioral_effects",
                    "simulate", "print_summary" >>
        assigned == { i \in DOMAIN clients : DOMAIN clients[i].portfolio.holdings /= {} }
    IN  /\ Len(log) <= Len(order)
        /\ log = SubSeq(order, 1, Len(log))
        /\ pc = "done" => log = order
        /\ pc \in Range(order) => log /= << >> /\ log[Len(log)] = pc
        /\ DOMAIN market_data /= {} => Len(clients) = n_clients
        /\ assigned /= {} => DOMAIN market_data /= {}
        /\ Len(opt_log) > 0 => assigned = DOMAIN clients
        /\ Len(risk_metrics) > 0 => Len(opt_log) = Len(clients)
        /\ Len(esg_scores) > 0 => Len(risk_metrics) = Len(clients)
        /\ Len(behavioral_impacts) > 0 => Len(esg_scores) = Len(clients)
        /\ Len(portfolio_history) > 0 => Len(behavioral_impacts) = Len(clients)
        /\ Called("print_summary") => Len(portfolio_history) = Len(clients)

\* a run of two clients that returned
C1_Witness ==
    /\ pc = "done"
    /\ Len(clients) = 2
    /\ Len(log) = 9

\* C2: after run() has returned on a fresh engine, risk_metrics, esg_scores,
\* behavioral_impacts and portfolio_history each hold exactly one record per client,
\* and the k-th record of each belongs to the k-th client.
C2_OneRecordPerClient ==
    pc = "done" =>
        /\ Len(clients) = n_clients
        /\ Len(risk_metrics) = Len(clients)
        /\ Len(esg_scores) = Len(clients)
        /\ Len(behavioral_impacts) = Len(clients)
        /\ Len(portfolio_history) = Len(clients)
        /\ \A k \in DOMAIN clients :
             /\ risk_metrics[k].client_id = clients[k].client_id
             /\ esg_scores[k].client_id = clients[k].client_id
             /\ behavioral_impacts[k].client_id = clients[k].client_id
             /\ portfolio_history[k].name = clients[k].client_id

\* a returned run whose second records belong to the second client (client_id 1)
C2_Witness ==
    /\ pc = "done"
    /\ Len(risk_metrics) = 2
    /\ risk_metrics[2].client_id = 1
    /\ portfolio_history[2].name = 1

\* C3: a failure result of the optimizer for a client does not abort
\* optimize_portfolios or run(): the stage handles every remaining client, the only
\* runs that raise are those whose n_periods is outside 1..rows of the panel (raised
\* by simulate or print_summary whatever the optimizer returned), and a run that
\* returns has a risk, ESG, behavioral and value-path record of every client, the
\* failed ones included.
C3_FailureDoesNotAbort ==
    FailedCalls /= {} =>
        /\ pc = "raised" => /\ n_periods \notin 1..PanelRows
                            /\ log[Len(log)] \in { "simulate", "print_summary" }
        /\ Called("calculate_risk_metrics") => Len(opt_log) = Len(clients)
        /\ pc = "done" =>
             \A k \in DOMAIN clients :
                 /\ \E r \in DOMAIN risk_metrics :
                        risk_metrics[r].client_id = clients[k].client_id
                 /\ \E r \in DOMAIN esg_scores :
                        esg_scores[r].client_id = clients[k].client_id
                 /\ \E r \in DOMAIN behavioral_impacts :
                        behavioral_impacts[r].client_id = clients[k].client_id
                 /\ \E r \in DOMAIN portfolio_history :
                        /\ portfolio_history[r].name = clients[k].client_id
                        /\ Len(portfolio_history[r].values) = n_periods

\* a returned run in which the first client's optimization failed and the second's
\* succeeded
C3_Witness ==
    /\ pc = "done"
    /\ Len(opt_log) = 2
    /\ ~opt_log[1].result.success
    /\ opt_log[2].result.success
    /\ Len(portfolio_history) = 2

\* the engine's state holds a record of a failed optimization of the client: a
\* record of that client, in one of the engine's collections or the client itself,
\* with the result's flag or message
HasFailureRecord(client_id) ==
    LET failure_keys == { "success", "message", "optimization_success",
                          "optimization_message", "optimization_failed" }
        Records(collection) ==
            \E r \in DOMAIN collection :
                /\ collection[r].client_id = client_id
                /\ DOMAIN collection[r] \cap failure_keys /= {}
    IN  \/ Records(clients)
        \/ Records(risk_metrics)
        \/ Records(esg_scores)
        \/ Records(behavioral_impacts)
        \/ \E k \in DOMAIN clients :
               /\ clients[k].client_id = client_id
               /\ DOMAIN clients[k].portfolio \cap failure_keys /= {}
        \/ \E h \in DOMAIN portfolio_history :
               /\ portfolio_history[h].name = client_id
               /\ DOMAIN portfolio_history[h] \cap failure_keys /= {}

\* C4: once optimize_portfolios has returned, the engine's state holds, for every
\* client whose optimization did not succeed, a record naming the client and the
\* failure. (opt_log is the history of the calls, not a field of the engine.)
C4_FailureRecorded ==
    Called("calculate_risk_metrics") =>
        \A i \in FailedCalls : HasFailureRecord(opt_log[i].client_id)

\* C5: a turn of the loop of optimize_portfolios whose optimizer result is a failure
\* leaves every holding of every client as it was: as assign_initial_portfolios
\* assigned it.
C5_FailureKeepsHoldings ==
    [][ ( /\ Len(opt_log') = Len(opt_log) + 1
          /\ ~opt_log'[Len(opt_log')].result.success )
        => /\ \A k \in DOMAIN clients :
                clients'[k].portfolio.holdings = clients[k].portfolio.holdings
           /\ clients[idx].portfolio.holdings =
                  assign_initial_portfolio(clients[idx], market_data).portfolio.holdings
      ]_vars

\* optimize_portfolios is over, the first client's optimization failed and the
\* client holds the initial allocation of a tolerance-1 client of wealth 100
C5_Witness ==
    /\ Called("calculate_risk_metrics")
    /\ 1 \in FailedCalls
    /\ clients[1].risk_tolerance = 1
    /\ clients[1].portfolio.holdings =
           [ Equity_1 |-> 13, Equity_2 |-> 13, Bond_1 |-> 65, Alt_1 |-> 9 ]

\* C6: optimize_portfolios calls exactly one optimizer per client, in client order:
\* max-Sharpe for a tolerance >= 7, risk parity for 4..6, minimum variance below 4.
C6_OneModePerBand ==
    LET band(t) == IF t \in {7, 8, 9, 10} THEN "optimize_sharpe_ratio"
                   ELSE IF t \in {4, 5, 6} THEN "risk_parity_optimization"
                   ELSE "minimum_variance_optimization"
    IN  /\ Len(opt_log) <= Len(clients)
        /\ pc = "optimize_portfolios" => Len(opt_log) = idx - 1
        /\ Called("calculate_risk_metrics") => Len(opt_log) = Len(clients)
        /\ \A i \in DOMAIN opt_log :
             /\ opt_log[i].client_id = clients[i].client_id
             /\ clients[i].risk_tolerance \in 1..10
             /\ opt_log[i].mode = band(clients[i].risk_tolerance)

\* optimize_portfolios is over for a tolerance-7 client and a tolerance-6 client
C6_Witness ==
    /\ Called("calculate_risk_metrics")
    /\ Len(opt_log) = 2
    /\ clients[1].risk_tolerance = 7
    /\ opt_log[1].mode = "optimize_sharpe_ratio"
    /\ clients[2].risk_tolerance = 6
    /\ opt_log[2].mode = "risk_parity_optimization"

\* C7: a turn of the loop of optimize_portfolios whose optimizer result is a success
\* leaves the client with holdings weight_i x (value before) over exactly the
\* columns of the panel, and with the same total value at unit prices.
C7_SuccessRescalesHoldings ==
    [][ ( /\ Len(opt_log') = Len(opt_log) + 1
          /\ opt_log'[Len(opt_log')].result.success )
        => LET columns == all_returns_of(market_data).columns
               before  == clients[idx].portfolio.holdings
               after   == clients'[idx].portfolio.holdings
               weights == opt_log'[Len(opt_log')].result.weights
               value   == total_value(before, unit_prices(columns))
           IN  /\ DOMAIN after = Range(columns)
               /\ \A i \in DOMAIN columns : 100 * after[columns[i]] = weights[i] * value
               /\ total_value(after, unit_prices(columns)) = value
               /\ value = clients[idx].wealth
      ]_vars

\* a tolerance-8 client of wealth 200 holds the max-Sharpe weights (1, 0, 0, 0)
\* scaled to 200
C7_Witness ==
    /\ Called("calculate_risk_metrics")
    /\ \E i \in DOMAIN opt_log :
         /\ opt_log[i].result.success
         /\ opt_log[i].result.weights = << 100, 0, 0, 0 >>
         /\ clients[i].wealth = 200
         /\ clients[i].portfolio.holdings =
                [ Equity_1 |-> 200, Equity_2 |-> 0, Bond_1 |-> 0, Alt_1 |-> 0 ]

\* C8: every client optimize_portfolios has handled, its optimization succeeded or
\* not, has reconstructed weights (holding x unit price / total value) that sum to
\* 1 and lie in [0, 1].
C8_WeightsSumToOne ==
    \A i \in DOMAIN opt_log :
        LET columns == all_returns_of(market_data).columns
            weights == allocation(clients[i].portfolio.holdings, unit_prices(columns))
        IN  /\ DOMAIN weights = Range(columns)
            /\ SumValues(weights, DOMAIN weights) = 100
            /\ \A a \in DOMAIN weights : 0 <= weights[a] /\ weights[a] <= 100

\* optimize_portfolios is over with one client left at its initial allocation by a
\* failure and one client optimized
C8_Witness ==
    /\ Called("calculate_risk_metrics")
    /\ \E i \in FailedCalls :
         clients[i].portfolio.holdings["Alt_1"] * 100 < clients[i].wealth * 10
    /\ \E j \in DOMAIN opt_log :
         /\ opt_log[j].result.success
         /\ clients[j].portfolio.holdings["Alt_1"] * 100 >= clients[j].wealth * 30

-----------------------------------------------------------------------------
(* Properties of optimize_sharpe_ratio, checked under SpecSharpe *)

\* C9: when the caller passes constraints to optimize_sharpe_ratio, every success
\* result still has weights that sum to 1, each in [0, 1]: the caller's constraints
\* come on top of the budget constraint.
C9_ExtraConstraintsKeepBudget ==
    ( /\ call.fn = "optimize_sharpe_ratio"
      /\ call.constraints.given
      /\ call.result.success )
    => /\ SumSeq(call.result.weights) = 100
       /\ \A i \in DOMAIN call.result.weights :
            0 <= call.result.weights[i] /\ call.result.weights[i] <= 100

-----------------------------------------------------------------------------
(* Properties of ESGProfile, checked under SpecESG *)

\* C10: every ESGProfile has overall = (environmental + social + governance) / 3 in
\* every state: after construction with pillar values, after every update(), and
\* after any change of a pillar field.
C10_OverallIsMean ==
    3 * profile.overall = profile.environmental + profile.social + profile.governance

-----------------------------------------------------------------------------
(* Properties of the profiles and the panels of a run, checked under Spec *)

\* C11: once calculate_esg_scores has returned, every client's own risk profile
\* (client.risk_profile) holds the var, cvar and volatility of the client's
\* risk_metrics record, and its own ESG profile (client.esg_profile) holds the
\* environmental, social, governance and overall score of its esg_scores record.
C11_ClientProfilesHoldMetrics ==
    Called("simulate_behavioral_effects") =>
        \A k \in DOMAIN clients :
            /\ clients[k].risk_profile.var = risk_metrics[k].var_95
            /\ clients[k].risk_profile.cvar = risk_metrics[k].cvar_95
            /\ clients[k].risk_profile.volatility = risk_metrics[k].volatility
            /\ clients[k].esg_profile.environmental = esg_scores[k].environmental
            /\ clients[k].esg_profile.social = esg_scores[k].social
            /\ clients[k].esg_profile.governance = esg_scores[k].governance
            /\ clients[k].esg_profile.overall = esg_scores[k].esg_score

\* C12: once generate_market_data has returned, no step of a later stage changes
\* market_data: the equities, bonds, alternatives and macro panels keep every value,
\* row and column.
C12_MarketDataFrozen ==
    [][ DOMAIN market_data /= {} => market_data' = market_data ]_vars

\* a run of two clients returned, every stage after generate_market_data having
\* handled both, and market_data holds the four panels
C12_Witness ==
    /\ pc = "done"
    /\ Len(portfolio_history) = 2
    /\ Len(behavioral_impacts) = 2
    /\ DOMAIN market_data = { "equities", "bonds", "alternatives", "macro" }

\* the holdings of a client in the columns of one panel, summed
class_total(holdings, columns) == SumSeq([ i \in DOMAIN columns |-> holdings[columns[i]] ])

\* C14: every client assign_initial_portfolios has handled and optimize_portfolios
\* has not yet has a tolerance t in 1..10 and a positive wealth, and holds class
\* totals of wealth times equity = min(0.2 + 0.06 t, 0.9), bond =
\* max(0.7 - 0.05 t, 0.05), alternatives = 1 - equity - bond, the three fractions
\* non-negative, every holding non-negative, and all holdings summing to the wealth.
C14_InitialAllocation ==
    \A k \in DOMAIN clients :
        ( DOMAIN clients[k].portfolio.holdings /= {} /\ Len(opt_log) < k ) =>
            LET t        == clients[k].risk_tolerance
                wealth   == clients[k].wealth
                holdings == clients[k].portfolio.holdings
                equity   == IF 20 + 6 * t <= 90 THEN 20 + 6 * t ELSE 90
                bond     == IF 70 - 5 * t >= 5 THEN 70 - 5 * t ELSE 5
                alt      == 100 - equity - bond
            IN  /\ t \in 1..10
                /\ wealth > 0
                /\ equity >= 0 /\ bond >= 0 /\ alt >= 0
                /\ 100 * class_total(holdings, market_data["equities"].columns)
                       = equity * wealth
                /\ 100 * class_total(holdings, market_data["bonds"].columns)
                       = bond * wealth
                /\ 100 * class_total(holdings, market_data["alternatives"].columns)
                       = alt * wealth
                /\ \A a \in DOMAIN holdings : holdings[a] >= 0
                /\ SumValues(holdings, DOMAIN holdings) = wealth

\* assign_initial_portfolios has handled a tolerance-10 client, whose alternatives
\* fraction is 0, and a tolerance-1 client
C14_Witness ==
    /\ pc = "assign_initial_portfolios"
    /\ idx = 3
    /\ clients[1].risk_tolerance = 10
    /\ clients[1].portfolio.holdings =
           [ Equity_1 |-> 80, Equity_2 |-> 80, Bond_1 |-> 40, Alt_1 |-> 0 ]
    /\ clients[2].risk_tolerance = 1
    /\ clients[2].portfolio.holdings["Bond_1"] = 65

-----------------------------------------------------------------------------
(* Properties of the per-client steps under any schedule, checked under SpecPipeline *)

\* the record of the k-th client in a collection
record_of(collection, k) ==
    collection[CHOOSE r \in DOMAIN collection : collection[r].client_id = clients[k].client_id]

\* the k-th client as the barrier-ordered stages leave it after each stage, from the
\* client setup() made, the panels and what the solver returns for its optimizer
after_stage(k, stage) ==
    LET all_returns == all_returns_of(market_data)
        c0 == Client(k - 1, clients[k].risk_tolerance)
        c1 == assign_initial_portfolio(c0, market_data)
        c2 == apply_optimizer_result(
                  c1, solved[select_optimizer(c0.risk_tolerance)], all_returns).client
        c3 == risk_client(c2, all_returns)
        c4 == esg_client(c3, market_data, asset_esg_scores)
    IN  IF stage = "optimize_portfolios" THEN c2
        ELSE IF stage = "calculate_risk_metrics" THEN c3
        ELSE c4

\* C13: under every schedule of the per-client steps that keeps each client's own
\* stage order (the barrier order and one whole client after the other included),
\* once every client is through, each client's holdings and profiles and its risk,
\* ESG, behavioral and value-path records are what the barrier-ordered stages
\* compute from that client, the panels and the solver alone, wherever in the
\* collections another client's records ended up.
C13_ScheduleIndependent ==
    ( \A k \in DOMAIN clients : projected(k) ) =>
        \A k \in DOMAIN clients :
            LET all_returns == all_returns_of(market_data)
            IN  /\ clients[k] = after_stage(k, "calculate_esg_scores")
                /\ record_of(risk_metrics, k) =
                       risk_record(after_stage(k, "optimize_portfolios"), all_returns)
                /\ record_of(esg_scores, k) =
                       esg_record(after_stage(k, "calculate_risk_metrics"),
                                  market_data, asset_esg_scores)
                /\ record_of(behavioral_impacts, k) =
                       behavioral_record(after_stage(k, "calculate_esg_scores"))
                /\ \E h \in DOMAIN portfolio_history :
                       portfolio_history[h] =
                           value_path(after_stage(k, "calculate_esg_scores"),
                                      market_data, n_periods)
                /\ Len(risk_metrics) = Len(clients)
                /\ Len(esg_scores) = Len(clients)
                /\ Len(behavioral_impacts) = Len(clients)
                /\ Len(portfolio_history) = Len(clients)

\* every client is through, with the second client's risk step run before the
\* first client's and the first client's projection before the second's
C13_Witness ==
    /\ pc = "pipeline"
    /\ Len(clients) = 2
    /\ Len(portfolio_history) = 2
    /\ risk_metrics[1].client_id = 1
    /\ portfolio_history[1].name = 0
    /\ clients[1].risk_tolerance /= clients[2].risk_tolerance

-----------------------------------------------------------------------------
(* Properties of RiskAnalytics, checked under SpecRisk *)

\* a mean sum / count is at most a threshold held in hundredths
mean_at_most(mean, threshold) == mean.den > 0 /\ 100 * mean.num <= threshold * mean.den

\* C15: for every non-empty return series and confidence level the tail at or below
\* the VaR threshold is not empty and conditional_var <= historical_var; and every
\* risk_metrics record and every risk profile calculate_risk_metrics stored has
\* cvar_95 <= var_95.
C15_CVaRAtMostVaR ==
    /\ call.fn = "risk_measures" => mean_at_most(call.cvar, call.var)
    /\ \A r \in DOMAIN risk_metrics :
           mean_at_most(risk_metrics[r].cvar_95, risk_metrics[r].var_95)
    /\ \A k \in DOMAIN risk_metrics :
           mean_at_most(clients[k].portfolio.risk_profile.cvar,
                        clients[k].portfolio.risk_profile.var)

\* a call on a three-period series at 50% whose CVaR is strictly below its VaR
C15_Witness ==
    /\ call.fn = "risk_measures"
    /\ Len(call.returns) = 3
    /\ call.confidence = 50
    /\ 100 * call.cvar.num < call.var * call.cvar.den

-----------------------------------------------------------------------------
(* Properties of simulate_behavioral_trading, checked under SpecBehavioral *)

\* C16: a call of simulate_behavioral_trading with a profile whose strengths are all
\* 0 returns adjusted_returns equal to portfolio_returns and a behavioral_impact of
\* 0 at every period, the periods where a rolling window is not yet full included.
C16_ZeroStrengthIdentity ==
    ( /\ call.fn = "simulate_behavioral_trading"
      /\ \A i \in DOMAIN call.biases : call.biases[i][2] = 0 )
    => \A t \in DOMAIN call.portfolio_returns :
           /\ float_eq(call.result.adjusted_returns[t], call.portfolio_returns[t])
           /\ float_eq(call.result.behavioral_impact[t], Float(0, 1))

\* C22: simulate_behavioral_trading returns one trading decision per profile bias of
\* the catalog, in profile order, with confidence = strength and an action of buy,
\* sell or hold; a Loss Aversion decision is a sale exactly when the 5-period average
\* of the returns as adjusted up to that bias is below -0.02 and the strength is
\* above 0.5; the biases the catalog does not know add no decision and change
\* nothing: the result is that of the profile without them.
C22_OneDecisionPerCatalogBias ==
    call.fn = "simulate_behavioral_trading" =>
        LET applied   == SelectSeq(call.biases, LAMBDA b : b[1] \in bias_effects)
            decisions == call.result.trading_decisions
            adjusted(k) == adjusted_after(applied, k, call.portfolio_returns,
                                          call.market_returns, call.anchor_price,
                                          call.current_price)
        IN  /\ Len(decisions) = Len(applied)
            /\ \A k \in DOMAIN decisions :
                 /\ decisions[k].bias = applied[k][1]
                 /\ decisions[k].strength = applied[k][2]
                 /\ decisions[k].confidence = applied[k][2]
                 /\ decisions[k].action \in { "buy", "sell", "hold" }
                 /\ decisions[k].bias = "Loss Aversion" =>
                        ( decisions[k].action = "sell"
                          <=> /\ float_below(tail_mean(adjusted(k)), Float(-2, 100))
                              /\ applied[k][2] > 5 )
            /\ call.result.adjusted_returns = adjusted(Len(applied))

\* a call with a bias the catalog does not know ahead of a Loss Aversion bias of
\* strength 0.8 that sells, and one of strength 0.5 on the same loss that holds
C22_Witness ==
    /\ call.fn = "simulate_behavioral_trading"
    /\ Len(call.biases) = 2
    /\ call.biases[1][1] = "Overconfidence"
    /\ call.biases[2][1] = "Loss Aversion"
    /\ Len(call.result.trading_decisions) = 1
    /\ float_below(call.result.trading_decisions[1].recent_performance, Float(-2, 100))
    /\ call.result.trading_decisions[1].action =
           IF call.biases[2][2] > 5 THEN "sell" ELSE "hold"
    /\ call.biases[2][2] = 8

-----------------------------------------------------------------------------
(* Properties of RiskAnalytics.stress_test, checked under SpecStress *)

\* C17: stress_test reports a loss for exactly the scenarios of the mapping; a
\* scenario of factor 1.0 reports the loss of the unstressed series, base 1000
\* minus base x (1 + sum of returns); a scenario of factor 0.0 reports the loss 0;
\* and a scenario reports the loss it reports when it is alone in the mapping.
C17_StressFactors ==
    call.fn = "stress_test" =>
        /\ DOMAIN call.results = DOMAIN call.scenarios
        /\ \A name \in DOMAIN call.scenarios :
             /\ call.scenarios[name] = 10 =>
                    100 * call.results[name]
                        = 100 * 1000 - 1000 * (100 + SumSeq(call.returns))
             /\ call.scenarios[name] = 0 => call.results[name] = 0
             /\ call.results[name] =
                    stress_test(call.returns,
                                [ n \in { name } |-> call.scenarios[name] ])[name]

\* a call on a series of sum -0.03 with a factor-1.0 and a factor-0.0 scenario:
\* losses 30 and 0
C17_Witness ==
    /\ call.fn = "stress_test"
    /\ SumSeq(call.returns) = -3
    /\ call.scenarios = [ crash |-> 10, rally |-> 0 ]
    /\ call.results = [ crash |-> 30, rally |-> 0 ]

-----------------------------------------------------------------------------
(* Properties of the optimizers' results, checked under SpecSharpe, SpecBlackLitterman *)
(* and SpecRiskParity                                                                 *)

\* a float that is a number: neither NaN nor an infinity
is_finite(x) == x.kind \notin { "nan", "inf" }

\* C19: optimize_sharpe_ratio returns no success result for weights of zero portfolio
\* variance (the call reports a failure instead), and no success result holds a NaN
\* or an infinity in expected_return, volatility or sharpe_ratio.
C19_ZeroVarianceGuarded ==
    ( call.fn = "optimize_sharpe_ratio" /\ call.result.success ) =>
        /\ portfolio_variance(call.returns, call.result.weights) /= Float(0, 1)
        /\ is_finite(call.result.expected_return)
        /\ is_finite(call.result.volatility)
        /\ is_finite(call.result.sharpe_ratio)

\* the return of the weights under a vector of expected returns
return_under(mu, weights) ==
    IF Len(weights) = 1 THEN float_mul(Float(weights[1], 100), mu[1])
    ELSE float_add(float_mul(Float(weights[1], 100), mu[1]),
                   float_mul(Float(weights[2], 100), mu[2]))

\* C18: a successful black_litterman_optimization reports the return and the Sharpe
\* ratio of its weights under the posterior mean mu_bl of the views, confidences and
\* market caps it was given, not under the sample mean of the panel.
C18_PosteriorMeanFeedsSolve ==
    ( /\ call.fn = "black_litterman_optimization"
      /\ "success" \in DOMAIN call.result
      /\ call.result.success ) =>
        LET mu_bl == posterior_mean(call.returns, call.market_caps, call.views,
                                    call.confidence)
            under_mu_bl == return_under(mu_bl, call.result.weights)
        IN  /\ call.result.expected_return = under_mu_bl
            /\ call.result.sharpe_ratio =
                   over_sqrt(float_sub(under_mu_bl, risk_free_rate), call.result.volatility)

\* |a - b| <= max(|a|, |b|) / 1000 for finite floats a and b
within_relative_tolerance(a, b) ==
    LET diff  == float_sub(a, b)
        large == IF Abs(a.num) * b.den >= Abs(b.num) * a.den THEN a ELSE b
    IN  1000 * Abs(diff.num) * large.den <= Abs(large.num) * diff.den

\* C20: the risk_contributions of a successful risk_parity_optimization are equal
\* across the assets within 1e-3 relative: the weights the solver reports for the
\* implemented objective are the equal-risk-contribution weights.
C20_EqualRiskContributions ==
    ( call.fn = "risk_parity_optimization" /\ call.result.success ) =>
        \A i, j \in DOMAIN call.result.risk_contributions :
            LET rc_i == call.result.risk_contributions[i]
                rc_j == call.result.risk_contributions[j]
            IN  /\ rc_i.kind = "quotient"
                /\ rc_j.kind = "quotient"
                /\ within_relative_tolerance(rc_i.num, rc_j.num)

-----------------------------------------------------------------------------
(* Properties of AlternativeInvestmentSimulator, checked under SpecAlternatives *)

\* C21: _calculate_irr never raises: it returns a number, which is 0.0 when a list
\* is None (an error inside the computation) or when npv has no zero in reach of the
\* root finder (no convergence), and otherwise is 0.0 or a rate at which the net
\* present value of the paired cash flows is zero.
C21_IrrFallsBackToZero ==
    call.fn = "_calculate_irr" =>
        /\ call.result \in Int
        /\ ( call.cash_flows_in = << >> \/ call.cash_flows_out = << >> ) => call.result = 0
        /\ ( call.cash_flows_in /= << >> /\ call.cash_flows_out /= << >> ) =>
              \/ call.result = 0
              \/ npv(call.result, call.cash_flows_in[1], call.cash_flows_out[1]) = 0

\* a call that found a rate other than 0 for flows whose npv is not flat
C21_Witness ==
    /\ call.fn = "_calculate_irr"
    /\ call.cash_flows_in = << << 100, 0 >> >>
    /\ call.cash_flows_out = << << 0, 150, 100 >> >>
    /\ call.result = 50

\* C24: simulate_j_curve returns n values; with d = min(recovery_time, n // 3) the
\* first d values decline from 0 to depth (non-increasing, none below depth, the
\* first the closest to 0), and the values from index d on rise from 0 toward
\* peak_return (non-decreasing, none above peak_return).
C24_JCurveShape ==
    call.fn = "simulate_j_curve" =>
        LET returns == call.result
            params  == j_curve_params[call.asset_type]
            d       == Min(params.recovery_time, call.n_periods \div 3)
        IN  /\ Len(returns) = call.n_periods
            /\ \A k \in 1..d : /\ float_leq(Float(params.depth, 100), returns[k])
                               /\ float_leq(returns[k], Float(0, 1))
            /\ \A k \in 1..(d - 1) : float_leq(returns[k + 1], returns[k])
            /\ d < call.n_periods => returns[d + 1] = Float(0, 1)
            /\ \A k \in (d + 1)..call.n_periods :
                   float_leq(returns[k], Float(params.peak_return, 100))
            /\ \A k \in (d + 1)..(call.n_periods - 1) : float_leq(returns[k], returns[k + 1])

\* the NAV returned for period t (1-based) by a simulator, 0 before the first period
nav_at(result, t) == IF t = 0 THEN 0 ELSE result.nav[t]

\* C25: simulate_private_equity returns capital_calls, distributions and nav of
\* length n_periods; nav follows NAV_t = NAV_{t-1} (1 + r_t) + call_t from 0; the
\* distribution of period t is 10% of the NAV returned for period t when t is after
\* period 3 and that NAV is above the NAV returned for period t - 1, and 0 otherwise.
C25_DistributionsFollowNav ==
    call.fn = "simulate_private_equity" =>
        LET result == call.result
        IN  /\ Len(result.capital_calls) = call.n_periods
            /\ Len(result.distributions) = call.n_periods
            /\ Len(result.nav) = call.n_periods
            /\ \A t \in 1..call.n_periods :
                 /\ result.nav[t] = grown(nav_at(result, t - 1), result.returns[t])
                                    + result.capital_calls[t]
                 /\ result.distributions[t] =
                        IF t > 3 /\ result.nav[t] > nav_at(result, t - 1)
                        THEN result.nav[t] \div 10
                        ELSE 0

\* C30: the capital calls of simulate_private_equity sum to at most the commitment.
C30_CallsWithinCommitment ==
    call.fn = "simulate_private_equity" =>
        SumSeq(call.result.capital_calls) <= call.commitment

\* the lists the simulator of a call passes to _calculate_irr
irr_flows_of(c) ==
    IF c.fn = "simulate_private_equity" THEN private_equity_flows(c.commitment, c.n_periods)
    ELSE IF c.fn = "simulate_real_estate" THEN real_estate_flows(c.commitment, c.n_periods)
    ELSE hedge_fund_flows(c.commitment, c.n_periods, c.result.gross_returns)

\* C29: in the three simulators every element of the two lists passed to
\* _calculate_irr is in a pair that npv sums, the terminal NAV at the end of the
\* second list in particular.
C29_TerminalNavInIrr ==
    call.fn \in { "simulate_private_equity", "simulate_real_estate", "simulate_hedge_fund" } =>
        LET flows == irr_flows_of(call)
            pairs == zip(flows.cash_flows_in, flows.cash_flows_out)
        IN  /\ Len(pairs) = Len(flows.cash_flows_in)
            /\ Len(pairs) = Len(flows.cash_flows_out)
            /\ pairs /= << >> => pairs[Len(pairs)][2] = nav_at(call.result, call.n_periods)

\* the return path of a simulated investment
return_path(sim_result) ==
    IF "returns" \in DOMAIN sim_result THEN sim_result.returns
    ELSE IF "appreciation_returns" \in DOMAIN sim_result THEN sim_result.appreciation_returns
    ELSE sim_result.net_returns

\* C26: simulate_portfolio_alternatives sums, over the investments of a known type,
\* their NAVs and their returns of each period, each times the investment's weight
\* (the supplied one, or 1/len(alternative_investments)); investments of an unknown
\* type add nothing.
C26_AggregatesNavAndReturns ==
    call.fn = "simulate_portfolio_alternatives" =>
        LET known  == [ j \in DOMAIN call.sim_results |-> "nav" \in DOMAIN call.sim_results[j] ]
            weight(j) == investment_weight(call.portfolio_weights,
                                           call.alternative_investments, j)
        IN  \A i \in 1..call.n_periods :
              /\ call.result.portfolio_nav[i] =
                     float_sum(select([ j \in DOMAIN call.sim_results |->
                                          IF known[j]
                                          THEN float_mul(Float(call.sim_results[j].nav[i], 1),
                                                         weight(j))
                                          ELSE Float(0, 1) ], known))
              /\ call.result.portfolio_returns[i] =
                     float_sum(select([ j \in DOMAIN call.sim_results |->
                                          IF known[j]
                                          THEN float_mul(return_path(call.sim_results[j])[i],
                                                         weight(j))
                                          ELSE Float(0, 1) ], known))

-----------------------------------------------------------------------------
(* Properties of calculate_portfolio_esg_score, checked under SpecPortfolioESG *)

\* C23: calculate_portfolio_esg_score returns, per pillar, the sum of weight x score
\* over the assets that have a score divided by their total weight; when that total
\* is zero (weights that cancel included) the three pillars and overall are 0; with
\* non-negative weights each pillar lies between the least and the greatest score
\* of the scored assets for that pillar.
C23_WeightAveragedOrZero ==
    call.fn = "calculate_portfolio_esg_score" =>
        LET weights == call.portfolio_weights
            scores  == call.asset_esg_scores
            scored  == DOMAIN weights \cap DOMAIN scores
            total_weight == weighted_sum(weights, scores, "weight", scored)
            pillars == { "environmental", "social", "governance" }
        IN  /\ total_weight = 0 =>
                  /\ \A pillar \in pillars : call.result[pillar] = 0
                  /\ call.result.overall = 0
            /\ total_weight /= 0 =>
                  \A pillar \in pillars :
                      call.result[pillar] =
                          weighted_sum(weights, scores, pillar, scored) \div total_weight
            /\ ( total_weight > 0 /\ \A a \in scored : weights[a] >= 0 ) =>
                  \A pillar \in pillars :
                      /\ \E a \in scored : scores[a][pillar] <= call.result[pillar]
                      /\ \E a \in scored : scores[a][pillar] >= call.result[pillar]

-----------------------------------------------------------------------------
(* Properties of simulate(), checked under Spec *)

\* C27: for every engine n_periods >= 1, the rows of the generated panels or more
\* than those rows alike, simulate() returns, and after it every client has a value
\* path of exactly n_periods entries whose entry t is the sum over the held assets
\* of holding x cumulative price up to period t.
C27_ValuePathPerPeriod ==
    n_periods >= 1 =>
        /\ ~ ( pc = "raised" /\ log /= << >> /\ log[Len(log)] = "simulate" )
        /\ "print_summary" \in Range(log) =>
               /\ Len(portfolio_history) = Len(clients)
               /\ \A k \in DOMAIN portfolio_history :
                    /\ Len(portfolio_history[k].values) = n_periods
                    /\ \A t \in 1..n_periods :
                         portfolio_history[k].values[t] =
                             total_value(clients[k].portfolio.holdings,
                                         asset_prices_of(market_data, t))

-----------------------------------------------------------------------------
(* Properties of an engine across its runs, checked under SpecRerun *)

\* the records of a collection are of pairwise distinct clients
one_per_client(ids) == \A i \in DOMAIN ids, j \in DOMAIN ids : i /= j => ids[i] /= ids[j]

\* C28: whenever run() has returned on an engine, for the first time or again,
\* clients has exactly n_clients entries of pairwise distinct client_id, and
\* risk_metrics, esg_scores, behavioral_impacts and portfolio_history each hold
\* len(clients) records, at most one per client_id.
C28_CollectionsStayPerClient ==
    pc = "done" =>
        /\ Len(clients) = n_clients
        /\ one_per_client([ k \in DOMAIN clients |-> clients[k].client_id ])
        /\ Len(risk_metrics) = Len(clients)
        /\ one_per_client([ k \in DOMAIN risk_metrics |-> risk_metrics[k].client_id ])
        /\ Len(esg_scores) = Len(clients)
        /\ one_per_client([ k \in DOMAIN esg_scores |-> esg_scores[k].client_id ])
        /\ Len(behavioral_impacts) = Len(clients)
        /\ one_per_client([ k \in DOMAIN behavioral_impacts |->
                              behavioral_impacts[k].client_id ])
        /\ Len(portfolio_history) = Len(clients)
        /\ one_per_client([ k \in DOMAIN portfolio_history |-> portfolio_history[k].name ])

====
